---- MODULE Spec2Model ----
(***************************************************************************)
(* The coordination substrate of pi-collaborating-agents: the file-backed *)
(* agent registry with its per-name directory lock, as implemented by the *)
(* lock-based store (registerSelf, updateSelfHeartbeat, unregisterSelf,    *)
(* listActiveAgents and their helpers).                                    *)
(*                                                                         *)
(* Every process is one agent process (its id is its pid).  A step of a    *)
(* process is one file-system call of the code (mkdir, read, rename,       *)
(* unlink, rm), together with the local computation that follows it.  A    *)
(* read of a registration and the isProcessAlive test on the pid it holds  *)
(* are modelled as one step.                                               *)
(*                                                                         *)
(* A call starts with its first file-system call; the temporary sibling    *)
(* file of writeFileAtomic is written in the step that decides to write    *)
(* (no other call ever reads it).                                          *)
(*                                                                         *)
(* Modelling assumptions: the registry directory exists and is writable    *)
(* (mkdir of a lock directory fails only with EEXIST); pids are not        *)
(* reused; the only injected file-system fault is a failing renameSync,    *)
(* for which writeFileAtomic has its own fallback branch; a process that   *)
(* is alive never holds a lock for STALE_LOCK_MS.  The registry            *)
(* may start with the registration of an agent of an earlier run whose     *)
(* process has died.                                                       *)
(*                                                                         *)
(* On top of the registry: pathMatchesReservation as a function of         *)
(* character sequences (PathSpec), getConflictsWithOtherAgents and the     *)
(* tool_call handler (ConflictSpec), and the inboxes and the message log   *)
(* with sendDirect, sendBroadcast and processInbox (MsgSpec, LogSpec).     *)
(* Beside them: readMessageLog (ReadSpec), mapWithConcurrencyLimit         *)
(* (PoolSpec), the spawn path of one agent (SpawnSpec) and of a chain of   *)
(* agents (ChainSpec, GateSpec), sendPromptAndWaitTurnEnd (ClientSpec,     *)
(* ClientLiveSpec), the callsigns of the children of a run (CallsignSpec), *)
(* runSpawnTask and the report of a batch (BatchSpec), the order of a      *)
(* drain (OrderSpec), startWatcher (WatchSpec), the reserve and release    *)
(* actions of agent_message (LedgerSpec), the inbox of a name over its     *)
(* owners (LegacySpec) and ensureRegistered (NamingSpec).                  *)
(***************************************************************************)
EXTENDS Integers, Sequences, FiniteSets, TLC

\* ----------------------------------------------------------------- bounds
MaxCalls == 2          \* store calls started under Spec, over all processes
MaxSeqCalls == 4       \* store calls started under SeqSpec
MaxLiveCalls == 3      \* store calls started under LiveSpec
MaxCrashes == 1        \* processes that die
MaxFaultyWrites == 1   \* writeFileAtomic calls whose first renameSync throws
MaxPathLen == 4        \* characters of a file path and of a reservation pattern
MaxMsgCalls == 2       \* messaging calls started under MsgSpec and LogSpec
MaxLogCalls == 2       \* store calls after which LogSpec starts no registry call
MaxLogLines == 3       \* lines of the log file under ReadSpec
MaxItems == 5          \* items handed to mapWithConcurrencyLimit under PoolSpec
MaxAgents == 3         \* agent processes of the chain under ChainSpec
MaxSpawnCalls == 3     \* subagent tool calls and /subagent commands under SpawnSpec and ChainSpec
MaxChunkLines == 2     \* lines a data event of the control socket completes
MaxClientEvents == 4   \* events of the control socket under ClientSpec

Procs == {1, 2}        \* pids of the agent processes that run
DeadPids == {3}        \* pid of an agent of an earlier run, dead
Pids == Procs \cup DeadPids
Names == {"a", "b"}
Sessions == {"s1", "s2"}

\* agents.sort((a, b) => a.name.localeCompare(b.name)): the collation rank
NameRank(n) == IF n = "a" THEN 1 ELSE 2

\* ------------------------------------------------------------ file contents
NoFile == [kind |-> "none"]
Invalid == [kind |-> "invalid"]   \* unparseable, or not an AgentRegistration
Registration(n, p, s, t) ==
  [kind |-> "reg", name |-> n, pid |-> p, sessionId |-> s, lastSeenAt |-> t]

NoLock == [exists |-> FALSE, owner |-> 0, old |-> FALSE]
LockDir(o, isOld) == [exists |-> TRUE, owner |-> o, old |-> isOld]

\* unregisterSelf's optional owner token; its sessionId is optional: "" stands
\* for both falsy values, the absent and the empty one
NoOwner == [given |-> FALSE, pid |-> 0, sessionId |-> ""]
OwnerToken(p, s) == [given |-> TRUE, pid |-> p, sessionId |-> s]
TokenSessions == Sessions \cup {""}

NoCall == [op |-> "none"]

VARIABLES
  alive,     \* alive[p]: process p is running (isProcessAlive(p))
  file,      \* file[n]: content of <registry>/<n>.json
  tmp,       \* tmp[p]: content of p's temporary sibling file
  lock,      \* lock[n]: the directory <registry>/<n>.json.lock and its owner.json
  pc,        \* pc[p]: where process p is in its current call
  call,      \* call[p]: the call in progress and its arguments
  release,   \* release[p]: what acquireLockSync returned to the call: "fn", "null"
  existing,  \* existing[p]: the registration the guarded function read
  entries,   \* entries[p]: listActiveAgents' readdir snapshot still to visit
  agents,    \* agents[p]: listActiveAgents' accumulator, in push order
  cur,       \* cur[p]: the entry removeRegistrationIfStillDead works on
  expected,  \* expected[p]: the registration the scan read for cur[p]
  ret,       \* ret[p]: result of p's current or last call
  listed,    \* listed[p]: the array the last listActiveAgents returned
  clock,     \* calls started so far; stamps lastSeenAt
  crashes,   \* processes that died so far
  faults     \* writeFileAtomic calls that hit a failing rename so far

\* the arguments and the result of the pathMatchesReservation call looked at
VARIABLES
  filePath,  \* the filePath argument, a sequence of characters
  pattern,   \* the pattern argument, a sequence of characters
  matches    \* the result: "none" before the call, then "true" or "false"

pathVars == <<filePath, pattern, matches>>

\* the tool_call handler of each agent process
VARIABLES
  tool,      \* tool[p]: the tool call the handler of p looks at, and its stage
  conflicts, \* conflicts[p]: what getConflictsWithOtherAgents returned to it
  decision   \* decision[p]: what the handler returned: allow, or block

toolVars == <<tool, conflicts, decision>>

\* the inboxes, the message log and the messaging calls
VARIABLES
  inbox,      \* inbox[n]: the message files of the inbox directory of agent n
  notDir,     \* the agents whose inbox path is a file, not a directory
  quarantine, \* quarantine[n]: the files of the directory .invalid of inbox n
  log,        \* the lines of the message log, in file order
  msg,        \* msg[p]: the messaging call of process p, with its locals
  result,     \* result[p]: what the last messaging call of p returned
  uuid,       \* the next fresh value (randomUUID, Date.now)
  msgCalls,   \* the number of messaging calls started
  kept,       \* kept[p]: files left by the last processInbox: handler raised
  examined,   \* the inbox files read by processInbox so far, in order
  runs        \* runs[p]: state.activeSubagentRuns

msgVars == <<inbox, notDir, quarantine, log, msg, result, uuid, msgCalls, kept,
             examined, runs>>

\* the reader of the message log
VARIABLES
  reader      \* the log file read, the limit, and what the reads returned

\* one call of mapWithConcurrencyLimit
VARIABLES
  pool        \* its arguments, nextIndex, its workers, results, and its promise

\* the agents that spawn agents
VARIABLES
  spawn       \* the chain of agent processes, their runs, and the last request

\* one call of sendPromptAndWaitTurnEnd
VARIABLES
  client      \* the locals of the call, its listeners, its timer, its promise

\* the display identities given to the children of a run
VARIABLES
  callsigns   \* the run, the set of usedCallsignsByRun for it, and the launches

\* the calls of runSpawnTask of one run
VARIABLES
  batch       \* every task's child process, promise and result, and the report

\* one inbox directory
VARIABLES
  mailbox     \* the clock, the files of the inbox, and what the last drain handled

\* the inbox watcher of one agent
VARIABLES
  watcher     \* where startWatcher stands, the inbox, the timer, the handed messages

\* the reservations of one agent and its registration record
VARIABLES
  ledger      \* state.reservations, the record, the lock, and the last result

\* the inbox of one name over the lives of its owners
VARIABLES
  legacy      \* the owner of the name, its inbox, and what every owner was handed

\* one call of ensureRegistered
VARIABLES
  naming      \* state.agentName, state.registered, the names tried, the registry

lastVars == <<ledger, legacy, naming>>

moreVars == <<callsigns, batch, mailbox, watcher, lastVars>>

extVars == <<reader, pool, spawn, client, moreVars>>

\* the registry, the reservations and the messages together
coreVars == <<alive, file, tmp, lock, pc, call, release, existing, entries, agents,
              cur, expected, ret, listed, clock, crashes, faults,
              pathVars, toolVars, msgVars>>

\* what the registry calls leave alone
otherVars == <<pathVars, toolVars, msgVars, extVars>>

vars == <<alive, file, tmp, lock, pc, call, release, existing, entries, agents,
          cur, expected, ret, listed, clock, crashes, faults, otherVars>>

scanVars == <<entries, agents, cur, expected, listed>>

regVars == <<alive, file, tmp, lock, pc, call, release, existing, entries, agents,
             cur, expected, ret, listed, clock, crashes, faults>>

\* no pathMatchesReservation call is looked at
NoPathCall ==
  /\ filePath = <<>>
  /\ pattern = <<>>
  /\ matches = "none"

\* no tool call is looked at
NoToolCall ==
  /\ tool = [p \in Procs |-> [stage |-> "none"]]
  /\ conflicts = [p \in Procs |-> <<>>]
  /\ decision = [p \in Procs |-> [kind |-> "none"]]

\* no message, no log line and no messaging call
NoMessaging ==
  /\ inbox = [n \in Names |-> {}]
  /\ notDir = {}
  /\ quarantine = [n \in Names |-> {}]
  /\ log = <<>>
  /\ msg = [p \in Procs |-> [op |-> "none", stage |-> "done"]]
  /\ result = [p \in Procs |-> [returned |-> FALSE]]
  /\ uuid = 3
  /\ msgCalls = 0
  /\ kept = [p \in Procs |-> {}]
  /\ examined = <<>>
  /\ runs = [p \in Procs |-> 0]

\* the registry is looked at alone
\* the log is not read
NoLogRead ==
  reader = [lines |-> <<>>, limit |-> 0, all |-> <<>>, tail |-> <<>>,
            didAll |-> FALSE, didTail |-> FALSE]

\* mapWithConcurrencyLimit is not called
NoPool ==
  pool = [stage |-> "idle", items |-> <<>>, concurrency |-> 0, nextIndex |-> 0,
          workers |-> <<>>, results |-> <<>>, claims |-> <<>>, finished |-> <<>>,
          resolved |-> <<>>]

\* no agent is asked to spawn
NoSpawn ==
  spawn = [agents |-> <<>>, cap |-> 0, calls |-> 0,
           last |-> [agent |-> 0, via |-> "none",
                     params |-> [task |-> [present |-> FALSE, text |-> <<>>],
                                 tasks |-> 0],
                     regOk |-> FALSE, response |-> "none", spawned |-> 0,
                     childDepth |-> 0]]

\* sendPromptAndWaitTurnEnd is not called
NoClient == client = [connected |-> FALSE]

\* nothing happens outside the registry, the reservations and the messages
\* reserveReadableCallsign is not called
NoCallsigns == callsigns = [runId |-> <<>>, used |-> {}, launched |-> <<>>]

\* runSpawnTask is not called
NoBatch ==
  batch = [mode |-> "none", tasks |-> <<>>,
           outcome |-> [kind |-> "none", successCount |-> 0, total |-> 0,
                        isError |-> FALSE]]

\* no inbox is looked at
NoMailbox ==
  mailbox = [now |-> 0, ticks |-> 0, sent |-> 0, files |-> {}, drains |-> 0,
             handled |-> <<>>]

\* startWatcher is not called
NoWatcher ==
  watcher = [stage |-> "none", files |-> {}, handed |-> {}, timer |-> FALSE,
             sent |-> 0]

NoLedger == ledger = [stage |-> "none"]

NoLegacy == legacy = [sent |-> -1]

NoNaming == naming = [stage |-> "none"]

NoLast == NoLedger /\ NoLegacy /\ NoNaming

NoMore == NoCallsigns /\ NoBatch /\ NoMailbox /\ NoWatcher /\ NoLast

NoExt == NoLogRead /\ NoPool /\ NoSpawn /\ NoClient /\ NoMore

RegistryOnly == NoPathCall /\ NoToolCall /\ NoMessaging /\ NoExt

\* the registration an agent of an earlier run left behind when it died
DeadPid == CHOOSE d \in DeadPids : TRUE
Leftover(n) == Registration(n, DeadPid, "s1", 0)

InitProcs ==
  /\ alive = [p \in Pids |-> p \in Procs]
  /\ tmp = [p \in Procs |-> NoFile]
  /\ pc = [p \in Procs |-> "idle"]
  /\ call = [p \in Procs |-> NoCall]
  /\ release = [p \in Procs |-> "none"]
  /\ existing = [p \in Procs |-> NoFile]
  /\ entries = [p \in Procs |-> {}]
  /\ agents = [p \in Procs |-> <<>>]
  /\ cur = [p \in Procs |-> ""]
  /\ expected = [p \in Procs |-> NoFile]
  /\ ret = [p \in Procs |-> "none"]
  /\ listed = [p \in Procs |-> <<>>]
  /\ clock = 0
  /\ crashes = 0
  /\ faults = 0

\* one agent name in use: its file may be the dead agent's, and the dead
\* agent may have died holding the lock
Init ==
  /\ InitProcs
  /\ RegistryOnly
  /\ \E c \in {NoFile, Leftover("a")} :
       file = [n \in Names |-> IF n = "a" THEN c ELSE NoFile]
  /\ \E l \in {NoLock, LockDir(DeadPid, FALSE)} :
       lock = [n \in Names |-> IF n = "a" THEN l ELSE NoLock]

\* ---------------------------------------------------------------- helpers
isProcessAlive(p) == alive[p]

\* readJsonFile + isValidRegistration: a missing or truncated file is not one
isValidRegistration(c) == c.kind = "reg"

sameOwner(ex, registration) ==
  ex.pid = registration.pid /\ ex.sessionId = registration.sessionId

\* the lock path a process works on: registrationLockPath, or `${filePath}.lock`
LockName(p) == IF call[p].op = "list" THEN cur[p] ELSE call[p].name

\* where the guarded function of each caller of acquireLockSync starts
FnEntry(p) ==
  CASE call[p].op = "register" -> "reg_read"
    [] call[p].op = "heartbeat" -> "hb_read"
    [] call[p].op = "unregister" -> "un_read"
    [] call[p].op = "list" -> "pr_read"

\* the positions inside a lock-guarded function
FnPcs == {"reg_read", "hb_read", "un_read", "un_unlink", "pr_read", "pr_unlink",
          "wr_ren", "wr_fb", "wr_ren2"}
InFn(p) == pc[p] \in FnPcs

\* a running process is between a successful mkdirSync(lockPath) on lock n
\* and the end of its release()
Holding(p, n) == (InFn(p) \/ pc[p] \in {"own", "rel"}) /\ LockName(p) = n

\* where a process continues once withRegistrationLock (or the prune) is over
AfterLock(p) == IF call[p].op = "list" THEN "ls" ELSE "idle"

\* `result ?? false` and the void callers, when the lock was not acquired
SkippedResult(p) ==
  CASE call[p].op = "register" -> "false"
    [] call[p].op = "list" -> ret[p]
    [] OTHER -> "void"

\* agents.sort by name: insertion of each element after the last one not greater
RECURSIVE InsertByName(_, _)
InsertByName(r, sorted) ==
  IF sorted = <<>> THEN <<r>>
  ELSE IF NameRank(r.name) < NameRank(Head(sorted).name)
       THEN <<r>> \o sorted
       ELSE <<Head(sorted)>> \o InsertByName(r, Tail(sorted))

RECURSIVE SortByName(_)
SortByName(seq) ==
  IF seq = <<>> THEN <<>>
  ELSE InsertByName(seq[Len(seq)], SortByName(SubSeq(seq, 1, Len(seq) - 1)))

\* ------------------------------------------------------------ call starts
\* fs.mkdirSync(lockPath) on lock n: creates the directory, or throws EEXIST
MkdirAt(p, n) ==
  IF lock[n].exists
    THEN /\ pc' = [pc EXCEPT ![p] = "stale"]
         /\ lock' = lock
    ELSE /\ pc' = [pc EXCEPT ![p] = "own"]
         /\ lock' = [lock EXCEPT ![n] = LockDir(0, FALSE)]

Begin(p, c) ==
  /\ pc[p] = "idle"
  /\ clock' = clock + 1
  /\ call' = [call EXCEPT ![p] = c]
  /\ ret' = [ret EXCEPT ![p] = "none"]
  /\ release' = [release EXCEPT ![p] = "none"]
  /\ existing' = [existing EXCEPT ![p] = NoFile]

\* registerSelf: serialize the registration, then withRegistrationLock, whose
\* acquireLockSync starts with its first mkdirSync
StartRegister(p, n, s) ==
  /\ Begin(p, [op |-> "register", name |-> n,
               registration |-> Registration(n, p, s, clock + 1)])
  /\ MkdirAt(p, n)
  /\ UNCHANGED <<alive, file, tmp, scanVars, crashes, faults>>
  /\ UNCHANGED otherVars

\* updateSelfHeartbeat: serialize the registration, then withRegistrationLock
StartHeartbeat(p, n, s) ==
  /\ Begin(p, [op |-> "heartbeat", name |-> n,
               registration |-> Registration(n, p, s, clock + 1)])
  /\ MkdirAt(p, n)
  /\ UNCHANGED <<alive, file, tmp, scanVars, crashes, faults>>
  /\ UNCHANGED otherVars

\* unregisterSelf(dirs, agentName, owner?)
StartUnregister(p, n, o) ==
  /\ Begin(p, [op |-> "unregister", name |-> n, owner |-> o])
  /\ MkdirAt(p, n)
  /\ UNCHANGED <<alive, file, tmp, scanVars, crashes, faults>>
  /\ UNCHANGED otherVars

\* listActiveAgents(dirs, excludeAgentName?): readdirSync of the registry;
\* only the entries ending in ".json" are visited (no lock directory, no
\* temporary file)
StartList(p, ex) ==
  /\ Begin(p, [op |-> "list", exclude |-> ex])
  /\ entries' = [entries EXCEPT ![p] = {n \in Names : file[n] # NoFile}]
  /\ agents' = [agents EXCEPT ![p] = <<>>]
  /\ pc' = [pc EXCEPT ![p] = "ls"]
  /\ UNCHANGED <<alive, file, tmp, lock, cur, expected, listed, crashes, faults>>
  /\ UNCHANGED otherVars

\* ------------------------------------------------------- acquireLockSync
\* a later iteration of the loop (and the first one of the prune's lock)
Mkdir(p) ==
  /\ pc[p] \in {"acq0", "acq"}
  /\ MkdirAt(p, LockName(p))
  /\ UNCHANGED <<alive, file, tmp, call, release, existing, scanVars, ret, clock,
                 crashes, faults>>
  /\ UNCHANGED otherVars

\* writeFileSync(owner.json, {pid, acquiredAt: now}), best effort: it lands in
\* whatever directory is at lockPath now, and throws (ignored) if none is;
\* the release function is then returned and the guarded function starts
WriteOwner(p) ==
  /\ pc[p] = "own"
  /\ lock' = IF lock[LockName(p)].exists
               THEN [lock EXCEPT ![LockName(p)] = LockDir(p, FALSE)]
               ELSE lock
  /\ release' = [release EXCEPT ![p] = "fn"]
  /\ pc' = [pc EXCEPT ![p] = FnEntry(p)]
  /\ UNCHANGED <<alive, file, tmp, call, existing, scanVars, ret, clock, crashes, faults>>
  /\ UNCHANGED otherVars

\* a variant of isLockStale that believes a readable owner.json of a live pid
\* and never looks at the age
isLockStaleNoAge(l) ==
  IF l.exists /\ l.owner # 0
    THEN ~isProcessAlive(l.owner)
    ELSE FALSE

\* isLockStale(lockPath)
isLockStale(l) ==
  IF l.exists /\ l.owner # 0
    THEN ~isProcessAlive(l.owner) \/ l.old   \* owner.json: dead pid, or acquiredAt too old
    ELSE IF l.exists THEN l.old              \* no readable owner.json: the directory's mtime
         ELSE TRUE                           \* statSync throws

\* the EEXIST branch: a stale lock is to be removed, otherwise sleep and retry
CheckStale(p) ==
  /\ pc[p] = "stale"
  /\ pc' = [pc EXCEPT ![p] = IF isLockStale(lock[LockName(p)]) THEN "reclaim" ELSE "acq"]
  /\ UNCHANGED <<alive, file, tmp, lock, call, release, existing, scanVars, ret, clock,
                 crashes, faults>>
  /\ UNCHANGED otherVars

\* fs.rmSync(lockPath, {recursive, force}) of the lock found stale; continue
Reclaim(p) ==
  /\ pc[p] = "reclaim"
  /\ lock' = [lock EXCEPT ![LockName(p)] = NoLock]
  /\ pc' = [pc EXCEPT ![p] = "acq"]
  /\ UNCHANGED <<alive, file, tmp, call, release, existing, scanVars, ret, clock,
                 crashes, faults>>
  /\ UNCHANGED otherVars

\* a variant of the timeout without withRegistrationLock's `if (!release)
\* return undefined`: the guarded function runs although no lock is held
AcquireTimeoutRunsFn(p) ==
  /\ pc[p] = "acq"
  /\ release' = [release EXCEPT ![p] = "null"]
  /\ pc' = [pc EXCEPT ![p] = FnEntry(p)]
  /\ UNCHANGED <<alive, file, tmp, lock, call, existing, scanVars, ret, clock, crashes,
                 faults>>
  /\ UNCHANGED otherVars

\* the loop condition Date.now() <= deadline fails (never on the first
\* iteration): acquireLockSync returns null and the guarded function is skipped
AcquireTimeout(p) ==
  /\ pc[p] = "acq"
  /\ release' = [release EXCEPT ![p] = "null"]
  /\ ret' = [ret EXCEPT ![p] = SkippedResult(p)]
  /\ pc' = [pc EXCEPT ![p] = AfterLock(p)]
  /\ call' = [call EXCEPT ![p] = IF call[p].op = "list" THEN call[p] ELSE NoCall]
  /\ UNCHANGED <<alive, file, tmp, lock, existing, scanVars, clock, crashes, faults>>
  /\ UNCHANGED otherVars

\* release(): fs.rmSync(lockPath, {recursive, force}), whatever is there
Release(p) ==
  /\ pc[p] = "rel"
  /\ lock' = [lock EXCEPT ![LockName(p)] = NoLock]
  /\ pc' = [pc EXCEPT ![p] = AfterLock(p)]
  /\ call' = [call EXCEPT ![p] = IF call[p].op = "list" THEN call[p] ELSE NoCall]
  /\ UNCHANGED <<alive, file, tmp, release, existing, scanVars, ret, clock, crashes, faults>>
  /\ UNCHANGED otherVars

\* STALE_LOCK_MS go by for a lock directory that no running process is
\* holding: a process that is alive gets from its mkdirSync to its release()
\* in less than that
LockAges(n) ==
  /\ lock[n].exists /\ ~lock[n].old
  /\ ~\E q \in Procs : Holding(q, n)
  /\ lock' = [lock EXCEPT ![n] = LockDir(lock[n].owner, TRUE)]
  /\ UNCHANGED <<alive, file, tmp, pc, call, release, existing, scanVars, ret, clock,
                 crashes, faults>>
  /\ UNCHANGED otherVars

\* a process dies, wherever it is; its lock directory and files stay
Crash(p) ==
  /\ alive[p]
  /\ crashes < MaxCrashes
  /\ crashes' = crashes + 1
  /\ alive' = [alive EXCEPT ![p] = FALSE]
  /\ pc' = [pc EXCEPT ![p] = "dead"]
  /\ UNCHANGED <<file, tmp, lock, call, release, existing, scanVars, ret, clock, faults>>
  /\ UNCHANGED otherVars

\* ---------------------------------------------------------- writeFileAtomic
\* the value the enclosing call yields when writeFileAtomic returns ok
WriteResult(p, ok) ==
  IF call[p].op = "register" THEN (IF ok THEN "true" ELSE "false") ELSE "void"

\* first half: fs.writeFileSync(tempPath, content) creates the temporary
\* sibling `${path}.${pid}.${uuid}.tmp`, which no other call reads
WriteTemp(p) ==
  /\ tmp' = [tmp EXCEPT ![p] = call[p].registration]
  /\ pc' = [pc EXCEPT ![p] = "wr_ren"]

\* fs.renameSync(tempPath, path) replaces the target in one step
Rename(p) ==
  /\ pc[p] = "wr_ren"
  /\ file' = [file EXCEPT ![call[p].name] = tmp[p]]
  /\ tmp' = [tmp EXCEPT ![p] = NoFile]
  /\ ret' = [ret EXCEPT ![p] = WriteResult(p, TRUE)]
  /\ pc' = [pc EXCEPT ![p] = "rel"]
  /\ UNCHANGED <<alive, lock, call, release, existing, scanVars, clock, crashes, faults>>
  /\ UNCHANGED otherVars

\* fs.renameSync throws: the fallback branch is entered
RenameFails(p) ==
  /\ pc[p] = "wr_ren"
  /\ faults < MaxFaultyWrites
  /\ faults' = faults + 1
  /\ pc' = [pc EXCEPT ![p] = "wr_fb"]
  /\ UNCHANGED <<alive, file, tmp, lock, call, release, existing, scanVars, ret, clock,
                 crashes>>
  /\ UNCHANGED otherVars

\* fallback: fs.rmSync(path, {force: true})
FallbackRemove(p) ==
  /\ pc[p] = "wr_fb"
  /\ file' = [file EXCEPT ![call[p].name] = NoFile]
  /\ pc' = [pc EXCEPT ![p] = "wr_ren2"]
  /\ UNCHANGED <<alive, tmp, lock, call, release, existing, scanVars, ret, clock,
                 crashes, faults>>
  /\ UNCHANGED otherVars

\* fallback: the second fs.renameSync(tempPath, path) succeeds
FallbackRename(p) ==
  /\ pc[p] = "wr_ren2"
  /\ file' = [file EXCEPT ![call[p].name] = tmp[p]]
  /\ tmp' = [tmp EXCEPT ![p] = NoFile]
  /\ ret' = [ret EXCEPT ![p] = WriteResult(p, TRUE)]
  /\ pc' = [pc EXCEPT ![p] = "rel"]
  /\ UNCHANGED <<alive, lock, call, release, existing, scanVars, clock, crashes, faults>>
  /\ UNCHANGED otherVars

\* fallback: the second renameSync throws too; the outer catch unlinks the
\* temporary file and writeFileAtomic returns false
FallbackRenameFails(p) ==
  /\ pc[p] = "wr_ren2"
  /\ tmp' = [tmp EXCEPT ![p] = NoFile]
  /\ ret' = [ret EXCEPT ![p] = WriteResult(p, FALSE)]
  /\ pc' = [pc EXCEPT ![p] = "rel"]
  /\ UNCHANGED <<alive, file, lock, call, release, existing, scanVars, clock, crashes, faults>>
  /\ UNCHANGED otherVars

\* ------------------------------------------------------------ registerSelf
\* the check of the lock-free revision (store.ts, registerSelf): only the
\* pid of the stored registration is compared with the caller's
RegisterCheckPidOnly(p) ==
  /\ pc[p] = "reg_read"
  /\ existing' = [existing EXCEPT ![p] = file[call[p].name]]
  /\ IF /\ isValidRegistration(existing'[p])
        /\ existing'[p].pid # call[p].registration.pid
        /\ isProcessAlive(existing'[p].pid)
       THEN /\ ret' = [ret EXCEPT ![p] = "false"]
            /\ pc' = [pc EXCEPT ![p] = "rel"]
            /\ tmp' = tmp
       ELSE /\ ret' = ret
            /\ WriteTemp(p)
  /\ UNCHANGED <<alive, file, lock, call, release, scanVars, clock, crashes, faults>>
  /\ UNCHANGED otherVars

\* the guarded function: read the stored registration; a valid one of another
\* (pid, sessionId) whose pid is alive makes the call return false
RegisterCheck(p) ==
  /\ pc[p] = "reg_read"
  /\ existing' = [existing EXCEPT ![p] = file[call[p].name]]
  /\ IF /\ isValidRegistration(existing'[p])
        /\ ~sameOwner(existing'[p], call[p].registration)
        /\ isProcessAlive(existing'[p].pid)
       THEN /\ ret' = [ret EXCEPT ![p] = "false"]
            /\ pc' = [pc EXCEPT ![p] = "rel"]
            /\ tmp' = tmp
       ELSE /\ ret' = ret
            /\ WriteTemp(p)
  /\ UNCHANGED <<alive, file, lock, call, release, scanVars, clock, crashes, faults>>
  /\ UNCHANGED otherVars

\* ------------------------------------------------------ updateSelfHeartbeat
\* the heartbeat of the lock-free revision (store.ts, updateSelfHeartbeat):
\* any existing file is written over
HeartbeatCheckExistsOnly(p) ==
  /\ pc[p] = "hb_read"
  /\ existing' = [existing EXCEPT ![p] = file[call[p].name]]
  /\ IF existing'[p] # NoFile
       THEN WriteTemp(p)
       ELSE /\ pc' = [pc EXCEPT ![p] = "rel"]
            /\ tmp' = tmp
  /\ ret' = [ret EXCEPT ![p] = "void"]
  /\ UNCHANGED <<alive, file, lock, call, release, scanVars, clock, crashes, faults>>
  /\ UNCHANGED otherVars

\* the guarded function: write over an absent or invalid file, over the
\* caller's own record and over a dead owner's; otherwise do nothing
HeartbeatCheck(p) ==
  /\ pc[p] = "hb_read"
  /\ existing' = [existing EXCEPT ![p] = file[call[p].name]]
  /\ IF \/ ~isValidRegistration(existing'[p])
        \/ sameOwner(existing'[p], call[p].registration)
        \/ ~isProcessAlive(existing'[p].pid)
       THEN WriteTemp(p)
       ELSE /\ pc' = [pc EXCEPT ![p] = "rel"]
            /\ tmp' = tmp
  /\ ret' = [ret EXCEPT ![p] = "void"]
  /\ UNCHANGED <<alive, file, lock, call, release, scanVars, clock, crashes, faults>>
  /\ UNCHANGED otherVars

\* ----------------------------------------------------------- unregisterSelf
\* `existing.pid !== owner.pid` and `owner.sessionId && existing.sessionId !==
\* owner.sessionId`: an absent or empty sessionId is not compared
OwnerMatches(ex, owner) ==
  /\ ex.pid = owner.pid
  /\ (owner.sessionId = "" \/ ex.sessionId = owner.sessionId)

\* the guarded function up to its unlink: without an owner token it deletes;
\* with one it reads the file and returns unless the file is a valid
\* registration that the token matches
UnregisterCheck(p) ==
  /\ pc[p] = "un_read"
  /\ IF ~call[p].owner.given
       THEN /\ pc' = [pc EXCEPT ![p] = "un_unlink"]
            /\ existing' = existing
       ELSE /\ existing' = [existing EXCEPT ![p] = file[call[p].name]]
            /\ IF isValidRegistration(existing'[p]) /\ OwnerMatches(existing'[p], call[p].owner)
                 THEN pc' = [pc EXCEPT ![p] = "un_unlink"]
                 ELSE pc' = [pc EXCEPT ![p] = "rel"]
  /\ ret' = [ret EXCEPT ![p] = "void"]
  /\ UNCHANGED <<alive, file, tmp, lock, call, release, scanVars, clock, crashes, faults>>
  /\ UNCHANGED otherVars

\* fs.unlinkSync(path), best effort
UnregisterUnlink(p) ==
  /\ pc[p] = "un_unlink"
  /\ file' = [file EXCEPT ![call[p].name] = NoFile]
  /\ pc' = [pc EXCEPT ![p] = "rel"]
  /\ UNCHANGED <<alive, tmp, lock, call, release, existing, scanVars, ret, clock,
                 crashes, faults>>
  /\ UNCHANGED otherVars

\* --------------------------------------------------------- listActiveAgents
\* `excludeAgentName && parsed.name === excludeAgentName`
Excluded(parsed, ex) == ex # "" /\ parsed.name = ex

\* the loop body of the lock-free revision (store.ts, listActiveAgents) for a
\* file that is no valid registration: the file is unlinked
ListEntryDeletesInvalid(p, e) ==
  /\ pc[p] = "ls"
  /\ e \in entries[p]
  /\ ~isValidRegistration(file[e])
  /\ entries' = [entries EXCEPT ![p] = @ \ {e}]
  /\ file' = [file EXCEPT ![e] = NoFile]
  /\ UNCHANGED <<alive, tmp, lock, pc, call, release, existing, agents, cur, expected,
                 ret, listed, clock, crashes, faults>>
  /\ UNCHANGED otherVars

\* one iteration of the scan loop: read and parse the entry; skip what is not
\* a valid registration (without deleting it); prune a dead one; skip the
\* excluded name; push the rest
ListEntry(p, e) ==
  /\ pc[p] = "ls"
  /\ e \in entries[p]
  /\ entries' = [entries EXCEPT ![p] = @ \ {e}]
  /\ LET parsed == file[e] IN
       IF ~isValidRegistration(parsed)
         THEN UNCHANGED <<pc, agents, cur, expected>>
         ELSE IF ~isProcessAlive(parsed.pid)
           THEN /\ cur' = [cur EXCEPT ![p] = e]
                /\ expected' = [expected EXCEPT ![p] = parsed]
                /\ pc' = [pc EXCEPT ![p] = "acq0"]
                /\ agents' = agents
           ELSE /\ agents' = [agents EXCEPT ![p] =
                                IF Excluded(parsed, call[p].exclude) THEN @ ELSE Append(@, parsed)]
                /\ UNCHANGED <<pc, cur, expected>>
  /\ UNCHANGED <<alive, file, tmp, lock, call, release, existing, ret, listed, clock,
                 crashes, faults>>
  /\ UNCHANGED otherVars

\* removeRegistrationIfStillDead, under the lock: re-read the file and go on
\* to the unlink only if it still holds the scanned (pid, sessionId) and that
\* pid is dead
PruneCheck(p) ==
  /\ pc[p] = "pr_read"
  /\ existing' = [existing EXCEPT ![p] = file[cur[p]]]
  /\ IF /\ isValidRegistration(existing'[p])
        /\ existing'[p].pid = expected[p].pid
        /\ existing'[p].sessionId = expected[p].sessionId
        /\ ~isProcessAlive(existing'[p].pid)
       THEN pc' = [pc EXCEPT ![p] = "pr_unlink"]
       ELSE pc' = [pc EXCEPT ![p] = "rel"]
  /\ UNCHANGED <<alive, file, tmp, lock, call, release, scanVars, ret, clock, crashes,
                 faults>>
  /\ UNCHANGED otherVars

\* removeRegistrationIfStillDead: fs.unlinkSync(filePath), best effort
PruneUnlink(p) ==
  /\ pc[p] = "pr_unlink"
  /\ file' = [file EXCEPT ![cur[p]] = NoFile]
  /\ pc' = [pc EXCEPT ![p] = "rel"]
  /\ UNCHANGED <<alive, tmp, lock, call, release, existing, scanVars, ret, clock,
                 crashes, faults>>
  /\ UNCHANGED otherVars

\* a variant that returns the accumulator in push order, which is the order
\* readdirSync happened to list the files in
ListDoneUnsorted(p) ==
  /\ pc[p] = "ls"
  /\ entries[p] = {}
  /\ listed' = [listed EXCEPT ![p] = agents[p]]
  /\ ret' = [ret EXCEPT ![p] = "list"]
  /\ pc' = [pc EXCEPT ![p] = "idle"]
  /\ call' = [call EXCEPT ![p] = NoCall]
  /\ UNCHANGED <<alive, file, tmp, lock, release, existing, entries, agents, cur,
                 expected, clock, crashes, faults>>
  /\ UNCHANGED otherVars

\* the loop is over: sort by name and return
ListDone(p) ==
  /\ pc[p] = "ls"
  /\ entries[p] = {}
  /\ listed' = [listed EXCEPT ![p] = SortByName(agents[p])]
  /\ ret' = [ret EXCEPT ![p] = "list"]
  /\ pc' = [pc EXCEPT ![p] = "idle"]
  /\ call' = [call EXCEPT ![p] = NoCall]
  /\ UNCHANGED <<alive, file, tmp, lock, release, existing, entries, agents, cur,
                 expected, clock, crashes, faults>>
  /\ UNCHANGED otherVars

\* ------------------------------------------------------------ specification
\* a step of a call in progress
Step(p) ==
  \/ Mkdir(p)
  \/ WriteOwner(p)
  \/ CheckStale(p)
  \/ Reclaim(p)
  \/ AcquireTimeout(p)
  \/ Release(p)
  \/ RegisterCheck(p)
  \/ HeartbeatCheck(p)
  \/ Rename(p)
  \/ FallbackRemove(p)
  \/ FallbackRename(p)
  \/ FallbackRenameFails(p)
  \/ UnregisterCheck(p)
  \/ UnregisterUnlink(p)
  \/ \E e \in Names : ListEntry(p, e)
  \/ PruneCheck(p)
  \/ PruneUnlink(p)
  \/ ListDone(p)

\* Spec: the processes of Procs call the store concurrently, all on one name
RaceNames == {"a"}

Next ==
  \/ /\ clock < MaxCalls
     /\ \/ \E p \in Procs, n \in RaceNames, s \in Sessions : StartRegister(p, n, s)
        \/ \E p \in Procs, n \in RaceNames, s \in Sessions : StartHeartbeat(p, n, s)
        \/ \E p \in Procs, n \in RaceNames : StartUnregister(p, n, NoOwner)
        \/ \E p \in Procs, n \in RaceNames, s \in TokenSessions :
             StartUnregister(p, n, OwnerToken(p, s))
        \/ \E p \in Procs, ex \in RaceNames \cup {""} : StartList(p, ex)
  \/ \E p \in Procs : Step(p)
  \/ \E p \in Procs : RenameFails(p)
  \/ \E n \in Names : LockAges(n)
  \/ \E p \in Procs : Crash(p)

Spec == Init /\ [][Next]_vars

\* SeqSpec: registerSelf and listActiveAgents, one call at a time, on two
\* names; a process dies only between calls.  Each name may start with the
\* registration of the dead agent or with a file that is no registration, and
\* with a lock directory that an earlier process left when it died: after
\* it wrote owner.json, or before.
SeqInit ==
  /\ InitProcs
  /\ RegistryOnly
  /\ file \in [Names -> {NoFile, Invalid} \cup {Leftover(n) : n \in Names}]
  /\ \A n \in Names : file[n] \in {NoFile, Invalid, Leftover(n)}
  /\ lock \in [Names -> {NoLock, LockDir(DeadPid, FALSE), LockDir(0, FALSE)}]

Quiet == \A q \in Procs : pc[q] \in {"idle", "dead"}

SeqNext ==
  \/ /\ clock < MaxSeqCalls
     /\ Quiet
     /\ \/ \E p \in Procs, n \in Names : StartRegister(p, n, "s1")
        \/ \E p \in Procs, ex \in Names \cup {""} : StartList(p, ex)
  \/ \E p \in Procs :
       \/ Mkdir(p)
       \/ WriteOwner(p)
       \/ CheckStale(p)
       \/ Reclaim(p)
       \/ AcquireTimeout(p)
       \/ Release(p)
       \/ RegisterCheck(p)
       \/ Rename(p)
       \/ \E e \in Names : ListEntry(p, e)
       \/ PruneCheck(p)
       \/ PruneUnlink(p)
       \/ ListDone(p)
  \/ \E n \in Names : LockAges(n)
  \/ \E p \in Procs : Quiet /\ Crash(p)

SeqSpec == SeqInit /\ [][SeqNext]_vars

\* LiveSpec: two processes register and heartbeat one name that a process of
\* an earlier run left locked when it died, before or after it wrote
\* owner.json.  Nobody dies in this run.  A running process goes on with
\* its call (the code is synchronous and straight-line), and the deadline of
\* acquireLockSync passes only for a process that a lock which is not stale
\* keeps waiting: the path that removes a stale lock does not sleep.
LiveInit ==
  /\ InitProcs
  /\ RegistryOnly
  /\ file = [n \in Names |-> NoFile]
  /\ \E l \in {LockDir(DeadPid, FALSE), LockDir(0, FALSE)} :
       lock = [n \in Names |-> IF n = "a" THEN l ELSE NoLock]

Blocked(p) ==
  /\ pc[p] = "acq"
  /\ lock[LockName(p)].exists
  /\ ~isLockStale(lock[LockName(p)])

Runs(p) ==
  \/ Mkdir(p)
  \/ WriteOwner(p)
  \/ CheckStale(p)
  \/ Reclaim(p)
  \/ Release(p)
  \/ RegisterCheck(p)
  \/ HeartbeatCheck(p)
  \/ Rename(p)

LiveNext ==
  \/ /\ clock < MaxLiveCalls
     /\ \/ \E p \in Procs, n \in RaceNames : StartRegister(p, n, "s1")
        \/ \E p \in Procs, n \in RaceNames : StartHeartbeat(p, n, "s1")
  \/ \E p \in Procs : Runs(p)
  \/ \E p \in Procs : Blocked(p) /\ AcquireTimeout(p)
  \/ \E n \in Names : LockAges(n)

LiveSpec ==
  /\ LiveInit
  /\ [][LiveNext]_vars
  /\ \A p \in Procs : WF_vars(Runs(p))


\* ------------------------------------------------- pathMatchesReservation
\* paths are sequences of characters: a letter, the separator and the dot
Chars == {"s", "/", "."}

RECURSIVE SeqsUpTo(_)
SeqsUpTo(n) ==
  IF n = 0 THEN {<<>>}
  ELSE LET shorter == SeqsUpTo(n - 1) IN
         shorter \cup {Append(q, c) : q \in {r \in shorter : Len(r) = n - 1}, c \in Chars}

Paths == SeqsUpTo(MaxPathLen)

\* String.prototype.startsWith and endsWith
startsWith(str, prefix) ==
  Len(prefix) <= Len(str) /\ SubSeq(str, 1, Len(prefix)) = prefix

endsWith(str, c) == Len(str) > 0 /\ str[Len(str)] = c

\* str.split("/"): the segments between the separators
RECURSIVE SplitAt(_, _)
SplitAt(str, seg) ==
  IF str = <<>> THEN <<seg>>
  ELSE IF Head(str) = "/" THEN <<seg>> \o SplitAt(Tail(str), <<>>)
       ELSE SplitAt(Tail(str), Append(seg, Head(str)))

\* path.posix normalizeString: empty and "." segments are dropped, ".."
\* removes the segment before it, or stays when there is none to remove and
\* the path is relative
RECURSIVE normalizeString(_, _, _)
normalizeString(segs, res, allowAboveRoot) ==
  IF segs = <<>> THEN res
  ELSE LET seg == Head(segs)
           rest == Tail(segs) IN
       IF seg = <<>> \/ seg = <<".">> THEN normalizeString(rest, res, allowAboveRoot)
       ELSE IF seg = <<".", ".">>
         THEN IF res # <<>> /\ res[Len(res)] # <<".", ".">>
                THEN normalizeString(rest, SubSeq(res, 1, Len(res) - 1), allowAboveRoot)
                ELSE IF allowAboveRoot
                       THEN normalizeString(rest, Append(res, seg), allowAboveRoot)
                       ELSE normalizeString(rest, res, allowAboveRoot)
         ELSE normalizeString(rest, Append(res, seg), allowAboveRoot)

\* segs.join("/")
RECURSIVE JoinSegs(_)
JoinSegs(segs) ==
  IF segs = <<>> THEN <<>>
  ELSE IF Len(segs) = 1 THEN Head(segs)
       ELSE Head(segs) \o <<"/">> \o JoinSegs(Tail(segs))

\* path.normalize (posix)
normalize(str) ==
  IF str = <<>> THEN <<".">>
  ELSE LET isAbsolute == Head(str) = "/"
           trailingSeparator == endsWith(str, "/")
           body == JoinSegs(normalizeString(SplitAt(str, <<>>), <<>>, ~isAbsolute)) IN
       IF body = <<>>
         THEN IF isAbsolute THEN <<"/">>
              ELSE IF trailingSeparator THEN <<".", "/">> ELSE <<".">>
         ELSE (IF isAbsolute THEN <<"/">> ELSE <<>>) \o body
              \o (IF trailingSeparator THEN <<"/">> ELSE <<>>)

\* .replace(/^\.\//, "")
StripDotSlash(str) ==
  IF startsWith(str, <<".", "/">>) THEN SubSeq(str, 3, Len(str)) ELSE str

\* pathMatchesReservation of the earlier revision (store.ts): the arguments
\* are compared as they are
pathMatchesReservationRaw(fp, pat) ==
  IF endsWith(pat, "/")
    THEN startsWith(fp, pat) \/ Append(fp, "/") = pat
    ELSE fp = pat

\* pathMatchesReservation(filePath, pattern)
pathMatchesReservation(fp, pat) ==
  LET normalizedFilePath == StripDotSlash(normalize(fp))
      normalizedPattern == StripDotSlash(normalize(pat)) IN
    IF endsWith(normalizedPattern, "/")
      THEN \/ startsWith(normalizedFilePath, normalizedPattern)
           \/ Append(normalizedFilePath, "/") = normalizedPattern
      ELSE normalizedFilePath = normalizedPattern

\* the call returns
Match ==
  /\ matches = "none"
  /\ matches' = IF pathMatchesReservation(filePath, pattern) THEN "true" ELSE "false"
  /\ UNCHANGED <<filePath, pattern, regVars, toolVars, msgVars, extVars>>

\* PathSpec: one call of pathMatchesReservation on any two strings
PathInit ==
  /\ InitProcs
  /\ file = [n \in Names |-> NoFile]
  /\ lock = [n \in Names |-> NoLock]
  /\ filePath \in Paths
  /\ pattern \in Paths
  /\ matches = "none"
  /\ NoToolCall
  /\ NoExt
  /\ NoMessaging

PathNext == Match

PathSpec == PathInit /\ [][PathNext]_vars

\* ------------------------------------------- reservations and the edit hook
\* a FileReservation; the optional reason is "" when it is absent
Reservation(pat, why) == [pattern |-> pat, reason |-> why]

\* a registration that carries the optional field reservations
Reserving(n, p, s, t, rs) ==
  [kind |-> "reg", name |-> n, pid |-> p, sessionId |-> s, lastSeenAt |-> t,
   reservations |-> rs]

\* the reservation lists, file paths and tool names looked at
ReservationLists ==
  { <<>>,
    <<Reservation(<<"s", "/">>, "why")>>,
    <<Reservation(<<"s", "s">>, "")>>,
    <<Reservation(<<"s", "s">>, ""), Reservation(<<"s", "/">>, "why")>> }

EditPaths == {<<>>, <<"s">>, <<"s", "s">>, <<"s", "/", "s">>}

ToolNames == {"edit", "write", "read"}

NoTool == [stage |-> "none"]
NoDecision == [kind |-> "none"]
Allow == [kind |-> "allow"]

\* {block: true, reason: lines.join("\n")}: the lines that depend on the
\* conflict are the agent, the pattern and, when the reason is not empty,
\* the reason
Block(conflict) ==
  [kind |-> "block", path |-> conflict.path, agent |-> conflict.agent,
   pattern |-> conflict.pattern,
   reason |-> IF conflict.reason # "" THEN <<conflict.reason>> ELSE <<>>]

\* getConflictsWithOtherAgents, inner loop: the reservations of one agent
RECURSIVE ReservationConflicts(_, _, _)
ReservationConflicts(agent, rs, fp) ==
  IF rs = <<>> THEN <<>>
  ELSE (IF pathMatchesReservation(fp, Head(rs).pattern)
          THEN <<[path |-> fp, agent |-> agent.name, pattern |-> Head(rs).pattern,
                  reason |-> Head(rs).reason, registration |-> agent]>>
          ELSE <<>>)
       \o ReservationConflicts(agent, Tail(rs), fp)

\* getConflictsWithOtherAgents, outer loop: the peers in the order listed
RECURSIVE PeerConflicts(_, _)
PeerConflicts(peers, fp) ==
  IF peers = <<>> THEN <<>>
  ELSE (IF "reservations" \notin DOMAIN Head(peers) \/ Head(peers).reservations = <<>>
          THEN <<>>
          ELSE ReservationConflicts(Head(peers), Head(peers).reservations, fp))
       \o PeerConflicts(Tail(peers), fp)

\* a variant of the handler that looks at edit calls only
ToolCallEditOnly(p, self, registered, toolName, path) ==
  /\ \A q \in Procs : tool[q] = NoTool
  /\ pc[p] = "idle"
  /\ IF ~registered \/ toolName # "edit" \/ path = <<>>
       THEN /\ tool' = [tool EXCEPT ![p] =
                          [stage |-> "done", self |-> self, registered |-> registered,
                           toolName |-> toolName, path |-> path]]
            /\ decision' = [decision EXCEPT ![p] = Allow]
       ELSE /\ tool' = [tool EXCEPT ![p] =
                          [stage |-> "conflicts", self |-> self, registered |-> registered,
                           toolName |-> toolName, path |-> path]]
            /\ decision' = decision
  /\ UNCHANGED <<conflicts, regVars, pathVars, msgVars, extVars>>

\* the tool_call handler starts: it returns at once (the call is allowed)
\* when the agent is not registered, for tools other than edit and write,
\* and when the trimmed path is empty
ToolCall(p, self, registered, toolName, path) ==
  /\ \A q \in Procs : tool[q] = NoTool
  /\ pc[p] = "idle"
  /\ IF ~registered \/ toolName \notin {"edit", "write"} \/ path = <<>>
       THEN /\ tool' = [tool EXCEPT ![p] =
                          [stage |-> "done", self |-> self, registered |-> registered,
                           toolName |-> toolName, path |-> path]]
            /\ decision' = [decision EXCEPT ![p] = Allow]
       ELSE /\ tool' = [tool EXCEPT ![p] =
                          [stage |-> "conflicts", self |-> self, registered |-> registered,
                           toolName |-> toolName, path |-> path]]
            /\ decision' = decision
  /\ UNCHANGED <<conflicts, regVars, pathVars, msgVars, extVars>>

\* a variant of getConflictsWithOtherAgents that lists every active agent
GetConflictsListAll(p) ==
  /\ tool[p].stage = "conflicts"
  /\ ret[p] = "none"
  /\ StartList(p, "")

\* getConflictsWithOtherAgents: peers = listActiveAgents(dirs, selfAgentName)
GetConflictsList(p) ==
  /\ tool[p].stage = "conflicts"
  /\ ret[p] = "none"
  /\ StartList(p, tool[p].self)

\* getConflictsWithOtherAgents returns and the handler decides: the first
\* conflict blocks the call
Decide(p) ==
  /\ tool[p].stage = "conflicts"
  /\ pc[p] = "idle" /\ ret[p] = "list"
  /\ conflicts' = [conflicts EXCEPT ![p] = PeerConflicts(listed[p], tool[p].path)]
  /\ decision' = [decision EXCEPT ![p] =
                    IF conflicts'[p] = <<>> THEN Allow ELSE Block(conflicts'[p][1])]
  /\ tool' = [tool EXCEPT ![p].stage = "done"]
  /\ UNCHANGED <<regVars, pathVars, msgVars, extVars>>

\* ConflictSpec: one tool call of one agent, on any registry content: under
\* each file name no file, a file that is no registration, or the
\* registration of any name by a live or dead process, with or without
\* reservations
RegistryFiles ==
  {NoFile, Invalid}
    \cup {Registration(n, q, "s1", 0) : n \in Names, q \in Pids}
    \cup {Reserving(n, q, "s1", 0, rs) : n \in Names, q \in Pids, rs \in ReservationLists}

ConflictInit ==
  /\ InitProcs
  /\ NoPathCall
  /\ NoMessaging
  /\ NoExt
  /\ file \in [Names -> RegistryFiles]
  /\ lock = [n \in Names |-> NoLock]
  /\ tool = [p \in Procs |-> NoTool]
  /\ decision = [p \in Procs |-> NoDecision]
  /\ conflicts = [p \in Procs |-> <<>>]

ConflictNext ==
  \/ \E p \in Procs, self \in Names, registered \in BOOLEAN, toolName \in ToolNames,
        path \in EditPaths : ToolCall(p, self, registered, toolName, path)
  \/ \E p \in Procs : GetConflictsList(p)
  \/ \E p \in Procs :
       \/ \E e \in Names : ListEntry(p, e)
       \/ Mkdir(p)
       \/ WriteOwner(p)
       \/ PruneCheck(p)
       \/ PruneUnlink(p)
       \/ Release(p)
       \/ ListDone(p)
  \/ \E p \in Procs : Decide(p)

ConflictSpec == ConflictInit /\ [][ConflictNext]_vars

\* ------------------------------------------- inboxes and the message log
\* The failure of the file system that is modelled here is an inbox path that
\* is no directory (notDir): ensureDirSync and readdirSync throw on it.
\* appendFileSync on the log, unlinkSync on a message file and renameSync
\* into .invalid are taken to succeed on paths that exist.
\* the agent a process runs (state.agentName)
AgentOf(p) == IF p = 1 THEN "a" ELSE "b"

\* the names a process broadcasts under: the name of its agent, or a name
\* that is not in the registry
Senders(p) == {AgentOf(p), "c"}

\* message texts, as sequences of characters
Texts == {<<" ">>, <<" ", "h", " ">>}

RECURSIVE TrimStart(_)
TrimStart(t) == IF t # <<>> /\ Head(t) = " " THEN TrimStart(Tail(t)) ELSE t

RECURSIVE TrimEnd(_)
TrimEnd(t) ==
  IF t # <<>> /\ t[Len(t)] = " " THEN TrimEnd(SubSeq(t, 1, Len(t) - 1)) ELSE t

\* String.prototype.trim
trim(t) == TrimEnd(TrimStart(t))

\* the urgent argument of sendDirect and sendBroadcast, false when omitted;
\* the agent_message tool passes params.urgent === true
UrgentArgs == {"undefined", "true", "false"}

urgentOf(arg) == arg = "true"

\* the optional arguments of a send: urgent (false by default) and replyTo
SendOptions ==
  {[urgent |-> urgent, replyTo |-> IF urgent THEN "r" ELSE "undefined"] :
     urgent \in {urgentOf(arg) : arg \in UrgentArgs}}

\* the content of an inbox file: an InboxMessage, or anything else
InboxMessage(id, from, to, text, kind, urgent, replyTo) ==
  [shape |-> "message", id |-> id, from |-> from, to |-> to, text |-> text,
   kind |-> kind, urgent |-> urgent, replyTo |-> replyTo]

Garbage == [shape |-> "garbage"]

isValidInboxMessage(m) == m.shape = "message"

\* a file of an inbox directory; the name orders the files of a directory as
\* `${Date.now()}-${process.pid}-${randomUUID()}.json` does
InboxFile(k, content) == [name |-> k, content |-> content]

\* a MessageLogEvent: a line of the log
DirectEvent(id, from, to, text, urgent, replyTo) ==
  [id |-> id, from |-> from, to |-> to, text |-> text, kind |-> "direct",
   urgent |-> urgent, replyTo |-> replyTo]

BroadcastEvent(id, from, text, urgent, recipients) ==
  [id |-> id, from |-> from, to |-> "all", text |-> text, kind |-> "broadcast",
   urgent |-> urgent, recipients |-> recipients]

\* the names of the files of a directory, ascending: readdirSync(dir).sort()
RECURSIVE SortNames(_)
SortNames(S) ==
  IF S = {} THEN <<>>
  ELSE LET least == CHOOSE k \in S : \A j \in S : k <= j IN
         <<least>> \o SortNames(S \ {least})

NoMsg == [op |-> "none", stage |-> "done"]
NoResult == [returned |-> FALSE]
Ok == [returned |-> TRUE, ok |-> TRUE]
Error(e) == [returned |-> TRUE, ok |-> FALSE, error |-> e]

\* the arguments and the local variables of a call, and where it stands
DirectFrame(stage, from, to, text, opt) ==
  [op |-> "direct", stage |-> stage, from |-> from, to |-> to, text |-> text,
   urgent |-> opt.urgent, replyTo |-> opt.replyTo]

BroadcastFrame(stage, from, text, opt) ==
  [op |-> "broadcast", stage |-> stage, from |-> from, text |-> text,
   urgent |-> opt.urgent, id |-> 0, recipients |-> <<>>, todo |-> <<>>,
   delivered |-> <<>>, failed |-> <<>>]

DrainFrame(stage, self, names, retry) ==
  [op |-> "drain", stage |-> stage, self |-> self, files |-> SortNames(names),
   seen |-> names, retry |-> retry, handled |-> <<>>]

\* no messaging call is in progress
MsgQuiet ==
  /\ \A q \in Procs : msg[q].stage = "done"
  /\ \A q \in Procs : pc[q] = "idle"

\* enqueueInboxMessage(dirs, targetAgent, message): ensureDirSync throws when
\* the inbox path of the target is not a directory, and nothing is written;
\* otherwise the file is written under a temporary name and renamed
CanEnqueue(target) == target \notin notDir

Enqueued(box, target, k, message) ==
  [box EXCEPT ![target] = @ \cup {InboxFile(k, message)}]

\* ---- the handler of processInbox
\* a handler that queues every message until the turn ends
deliverAlwaysFollowUp(m) ==
  [triggerTurn |-> TRUE, deliverAs |-> "followUp"]

\* deliverInboxMessage(msg): the options of pi.sendMessage; a message without
\* urgent is not urgent
deliverInboxMessage(m) ==
  [triggerTurn |-> TRUE,
   deliverAs |-> IF m.shape = "message" /\ m.urgent THEN "steer" ELSE "followUp"]

\* ---- sendDirect
\* a variant of sendDirect that looks at the target before the text
SendDirectStartSelfFirst(p, to, text, opt) ==
  /\ MsgQuiet
  /\ msgCalls < MaxMsgCalls
  /\ msgCalls' = msgCalls + 1
  /\ LET from == AgentOf(p)
         trimmed == trim(text)
     IN IF to = from
          THEN /\ msg' = [msg EXCEPT ![p] = DirectFrame("done", from, to, trimmed, opt)]
               /\ result' = [result EXCEPT ![p] =
                               Error("Cannot send direct message to yourself")]
        ELSE IF trimmed = <<>>
          THEN /\ msg' = [msg EXCEPT ![p] = DirectFrame("done", from, to, trimmed, opt)]
               /\ result' = [result EXCEPT ![p] = Error("Message is empty")]
          ELSE /\ msg' = [msg EXCEPT ![p] = DirectFrame("target", from, to, trimmed, opt)]
               /\ result' = [result EXCEPT ![p] = NoResult]
  /\ ret' = [ret EXCEPT ![p] = "none"]
  /\ UNCHANGED <<inbox, notDir, quarantine, log, uuid, kept, examined, runs>>
  /\ UNCHANGED <<alive, file, tmp, lock, pc, call, release, existing, entries,
                 agents, cur, expected, listed, clock, crashes, faults>>
  /\ UNCHANGED <<pathVars, toolVars, extVars>>

\* sendDirect(dirs, from, to, text, replyTo, urgent): the checks that need no
\* registry: the trimmed text, then the target against the sender
SendDirectStart(p, to, text, opt) ==
  /\ MsgQuiet
  /\ msgCalls < MaxMsgCalls
  /\ msgCalls' = msgCalls + 1
  /\ LET from == AgentOf(p)
         trimmed == trim(text)
     IN IF trimmed = <<>>
          THEN /\ msg' = [msg EXCEPT ![p] = DirectFrame("done", from, to, trimmed, opt)]
               /\ result' = [result EXCEPT ![p] = Error("Message is empty")]
        ELSE IF to = from
          THEN /\ msg' = [msg EXCEPT ![p] = DirectFrame("done", from, to, trimmed, opt)]
               /\ result' = [result EXCEPT ![p] =
                               Error("Cannot send direct message to yourself")]
          ELSE /\ msg' = [msg EXCEPT ![p] = DirectFrame("target", from, to, trimmed, opt)]
               /\ result' = [result EXCEPT ![p] = NoResult]
  /\ ret' = [ret EXCEPT ![p] = "none"]
  /\ UNCHANGED <<inbox, notDir, quarantine, log, uuid, kept, examined, runs>>
  /\ UNCHANGED <<alive, file, tmp, lock, pc, call, release, existing, entries,
                 agents, cur, expected, listed, clock, crashes, faults>>
  /\ UNCHANGED <<pathVars, toolVars, extVars>>

\* getAgentByName(dirs, to): listActiveAgents(dirs) with no name excluded
SendDirectList(p) ==
  /\ msg[p].op = "direct" /\ msg[p].stage = "target"
  /\ ret[p] = "none"
  /\ StartList(p, "")

\* a variant of sendDirect whose log line draws an id of its own
SendDirectDeliverTwoIds(p) ==
  /\ msg[p].op = "direct" /\ msg[p].stage = "target"
  /\ pc[p] = "idle" /\ ret[p] = "list"
  /\ msg' = [msg EXCEPT ![p].stage = "done"]
  /\ IF \A i \in 1..Len(listed[p]) : listed[p][i].name # msg[p].to
       THEN /\ result' = [result EXCEPT ![p] = Error("Agent is not active")]
            /\ UNCHANGED <<inbox, log, uuid>>
       ELSE LET message == InboxMessage(uuid, msg[p].from, msg[p].to, msg[p].text,
                                        "direct", msg[p].urgent,
                                        IF msg[p].replyTo = "undefined"
                                          THEN "null" ELSE msg[p].replyTo)
            IN IF CanEnqueue(msg[p].to)
                 THEN /\ inbox' = Enqueued(inbox, msg[p].to, uuid + 1, message)
                      /\ log' = Append(log, DirectEvent(uuid + 2, msg[p].from, msg[p].to,
                                                        msg[p].text, msg[p].urgent,
                                                        message.replyTo))
                      /\ uuid' = uuid + 3
                      /\ result' = [result EXCEPT ![p] = Ok]
                 ELSE /\ result' = [result EXCEPT ![p] =
                                      Error("Failed to send direct message")]
                      /\ uuid' = uuid + 2
                      /\ UNCHANGED <<inbox, log>>
  /\ UNCHANGED <<notDir, quarantine, msgCalls, kept, examined, runs>>
  /\ UNCHANGED <<regVars, pathVars, toolVars, extVars>>

\* sendDirect after getAgentByName: no target, or the message with a fresh
\* id and replyTo ?? null is enqueued and then logged; an enqueue that throws
\* is caught and reported
SendDirectDeliver(p) ==
  /\ msg[p].op = "direct" /\ msg[p].stage = "target"
  /\ pc[p] = "idle" /\ ret[p] = "list"
  /\ msg' = [msg EXCEPT ![p].stage = "done"]
  /\ IF \A i \in 1..Len(listed[p]) : listed[p][i].name # msg[p].to
       THEN /\ result' = [result EXCEPT ![p] = Error("Agent is not active")]
            /\ UNCHANGED <<inbox, log, uuid>>
       ELSE LET message == InboxMessage(uuid, msg[p].from, msg[p].to, msg[p].text,
                                        "direct", msg[p].urgent,
                                        IF msg[p].replyTo = "undefined"
                                          THEN "null" ELSE msg[p].replyTo)
            IN IF CanEnqueue(msg[p].to)
                 THEN /\ inbox' = Enqueued(inbox, msg[p].to, uuid + 1, message)
                      /\ log' = Append(log, DirectEvent(message.id, msg[p].from, msg[p].to,
                                                        msg[p].text, msg[p].urgent,
                                                        message.replyTo))
                      /\ uuid' = uuid + 2
                      /\ result' = [result EXCEPT ![p] = Ok]
                 ELSE /\ result' = [result EXCEPT ![p] =
                                      Error("Failed to send direct message")]
                      /\ uuid' = uuid + 2
                      /\ UNCHANGED <<inbox, log>>
  /\ UNCHANGED <<notDir, quarantine, msgCalls, kept, examined, runs>>
  /\ UNCHANGED <<regVars, pathVars, toolVars, extVars>>

\* ---- sendBroadcast
\* sendBroadcast(dirs, from, text, urgent): the trimmed text
SendBroadcastStart(p, from, text, opt) ==
  /\ MsgQuiet
  /\ msgCalls < MaxMsgCalls
  /\ msgCalls' = msgCalls + 1
  /\ LET trimmed == trim(text)
     IN IF trimmed = <<>>
          THEN /\ msg' = [msg EXCEPT ![p] = BroadcastFrame("done", from, trimmed, opt)]
               /\ result' = [result EXCEPT ![p] = Error("Message is empty")]
          ELSE /\ msg' = [msg EXCEPT ![p] =
                             BroadcastFrame("recipients", from, trimmed, opt)]
               /\ result' = [result EXCEPT ![p] = NoResult]
  /\ ret' = [ret EXCEPT ![p] = "none"]
  /\ UNCHANGED <<inbox, notDir, quarantine, log, uuid, kept, examined, runs>>
  /\ UNCHANGED <<alive, file, tmp, lock, pc, call, release, existing, entries,
                 agents, cur, expected, listed, clock, crashes, faults>>
  /\ UNCHANGED <<pathVars, toolVars, extVars>>

\* recipients = listActiveAgents(dirs, from).map((a) => a.name)
SendBroadcastList(p) ==
  /\ msg[p].op = "broadcast" /\ msg[p].stage = "recipients"
  /\ ret[p] = "none"
  /\ StartList(p, msg[p].from)

\* no recipient is an error; otherwise the id of the broadcast is drawn
SendBroadcastRecipients(p) ==
  /\ msg[p].op = "broadcast" /\ msg[p].stage = "recipients"
  /\ pc[p] = "idle" /\ ret[p] = "list"
  /\ LET recipients == [i \in 1..Len(listed[p]) |-> listed[p][i].name] IN
       IF recipients = <<>>
         THEN /\ msg' = [msg EXCEPT ![p].stage = "done"]
              /\ result' = [result EXCEPT ![p] = Error("No active recipients")]
              /\ uuid' = uuid
         ELSE /\ msg' = [msg EXCEPT ![p].stage = "enqueue", ![p].id = uuid,
                                    ![p].recipients = recipients, ![p].todo = recipients]
              /\ uuid' = uuid + 1
              /\ result' = result
  /\ UNCHANGED <<inbox, notDir, quarantine, log, msgCalls, kept, examined, runs>>
  /\ UNCHANGED <<regVars, pathVars, toolVars, extVars>>

\* a variant of the loop without the try: the first enqueue that throws ends
\* the broadcast
SendBroadcastEnqueueAborts(p) ==
  /\ msg[p].op = "broadcast" /\ msg[p].stage = "enqueue"
  /\ msg[p].todo # <<>>
  /\ LET target == Head(msg[p].todo) IN
       IF CanEnqueue(target)
         THEN /\ inbox' = Enqueued(inbox, target, uuid,
                             InboxMessage(msg[p].id, msg[p].from, target, msg[p].text,
                                          "broadcast", msg[p].urgent, "undefined"))
              /\ msg' = [msg EXCEPT ![p].todo = Tail(@),
                                    ![p].delivered = Append(@, target)]
              /\ result' = result
         ELSE /\ inbox' = inbox
              /\ msg' = [msg EXCEPT ![p].stage = "done"]
              /\ result' = [result EXCEPT ![p] = Error("Failed to broadcast")]
  /\ uuid' = uuid + 1
  /\ UNCHANGED <<notDir, quarantine, log, msgCalls, kept, examined, runs>>
  /\ UNCHANGED <<regVars, pathVars, toolVars, extVars>>

\* one round of the loop over the recipients: the enqueue for the target, in
\* a try of its own
SendBroadcastEnqueue(p) ==
  /\ msg[p].op = "broadcast" /\ msg[p].stage = "enqueue"
  /\ msg[p].todo # <<>>
  /\ LET target == Head(msg[p].todo) IN
       IF CanEnqueue(target)
         THEN /\ inbox' = Enqueued(inbox, target, uuid,
                             InboxMessage(msg[p].id, msg[p].from, target, msg[p].text,
                                          "broadcast", msg[p].urgent, "undefined"))
              /\ msg' = [msg EXCEPT ![p].todo = Tail(@),
                                    ![p].delivered = Append(@, target)]
         ELSE /\ inbox' = inbox
              /\ msg' = [msg EXCEPT ![p].todo = Tail(@),
                                    ![p].failed = Append(@, target)]
  /\ uuid' = uuid + 1
  /\ UNCHANGED <<notDir, quarantine, log, result, msgCalls, kept, examined, runs>>
  /\ UNCHANGED <<regVars, pathVars, toolVars, extVars>>

\* after the loop: one log line with the recipients, and the result
SendBroadcastLog(p) ==
  /\ msg[p].op = "broadcast" /\ msg[p].stage = "enqueue"
  /\ msg[p].todo = <<>>
  /\ log' = Append(log, BroadcastEvent(msg[p].id, msg[p].from, msg[p].text,
                                       msg[p].urgent, msg[p].recipients))
  /\ result' = [result EXCEPT ![p] =
                  [returned |-> TRUE, ok |-> TRUE, delivered |-> msg[p].delivered,
                   failed |-> msg[p].failed]]
  /\ msg' = [msg EXCEPT ![p].stage = "done"]
  /\ UNCHANGED <<inbox, notDir, quarantine, uuid, msgCalls, kept, examined, runs>>
  /\ UNCHANGED <<regVars, pathVars, toolVars, extVars>>

\* ---- processInbox
\* processInbox(dirs, state.agentName, onMessage): readdirSync of the inbox,
\* the names ending in ".json", sorted; it returns when readdirSync throws
ProcessInboxStart(p) ==
  /\ MsgQuiet
  /\ msgCalls < MaxMsgCalls
  /\ msgCalls' = msgCalls + 1
  /\ LET self == AgentOf(p) IN
       IF self \in notDir
         THEN msg' = [msg EXCEPT ![p] = DrainFrame("done", self, {}, kept[p])]
         ELSE msg' = [msg EXCEPT ![p] =
                        DrainFrame("loop", self, {f.name : f \in inbox[self]}, kept[p])]
  /\ result' = [result EXCEPT ![p] = NoResult]
  /\ UNCHANGED <<inbox, notDir, quarantine, log, uuid, kept, examined, runs>>
  /\ UNCHANGED <<regVars, pathVars, toolVars, extVars>>

\* the file of an inbox with a name (readJsonFile), or Garbage when there is
\* none (readJsonFile returns null)
ReadInbox(self, k) ==
  IF \E f \in inbox[self] : f.name = k
    THEN (CHOOSE f \in inbox[self] : f.name = k).content
    ELSE Garbage

\* the processInbox of the earlier store: the handler is called when the
\* payload has the four strings, and the file is deleted in any case
ProcessInboxFileAlwaysUnlink(p, raises) ==
  /\ msg[p].op = "drain" /\ msg[p].stage = "loop"
  /\ msg[p].files # <<>>
  /\ LET self == msg[p].self
         k == Head(msg[p].files)
         parsed == ReadInbox(self, k)
     IN /\ examined' = Append(examined, <<self, k>>)
        /\ inbox' = [inbox EXCEPT ![self] = {f \in @ : f.name # k}]
        /\ quarantine' = quarantine
        /\ IF isValidInboxMessage(parsed)
             THEN msg' = [msg EXCEPT ![p].files = Tail(@),
                            ![p].handled = Append(@, [name |-> k, message |-> parsed,
                                                      raised |-> raises,
                                                      deliverAs |-> deliverInboxMessage(parsed).deliverAs])]
             ELSE /\ ~raises
                  /\ msg' = [msg EXCEPT ![p].files = Tail(@)]
  /\ UNCHANGED <<notDir, log, result, uuid, msgCalls, kept, runs>>
  /\ UNCHANGED <<regVars, pathVars, toolVars, extVars>>

\* a variant that leaves a payload that is no InboxMessage where it is
ProcessInboxFileSkipsInvalid(p, raises) ==
  /\ msg[p].op = "drain" /\ msg[p].stage = "loop"
  /\ msg[p].files # <<>>
  /\ LET self == msg[p].self
         k == Head(msg[p].files)
         parsed == ReadInbox(self, k)
     IN /\ examined' = Append(examined, <<self, k>>)
        /\ IF ~isValidInboxMessage(parsed)
             THEN /\ ~raises
                  /\ quarantine' = quarantine
                  /\ inbox' = inbox
                  /\ msg' = [msg EXCEPT ![p].files = Tail(@)]
             ELSE /\ msg' = [msg EXCEPT ![p].files = Tail(@),
                               ![p].handled = Append(@, [name |-> k, message |-> parsed,
                                                         raised |-> raises,
                                                         deliverAs |-> deliverInboxMessage(parsed).deliverAs])]
                  /\ inbox' = IF raises THEN inbox
                              ELSE [inbox EXCEPT ![self] = {f \in @ : f.name # k}]
                  /\ quarantine' = quarantine
  /\ UNCHANGED <<notDir, log, result, uuid, msgCalls, kept, runs>>
  /\ UNCHANGED <<regVars, pathVars, toolVars, extVars>>

\* one round of the loop over the files: a payload that is no InboxMessage
\* is renamed into the directory .invalid; a message goes to the handler,
\* which returns or raises, and its file is unlinked when it returned
ProcessInboxFile(p, raises) ==
  /\ msg[p].op = "drain" /\ msg[p].stage = "loop"
  /\ msg[p].files # <<>>
  /\ LET self == msg[p].self
         k == Head(msg[p].files)
         parsed == ReadInbox(self, k)
     IN /\ examined' = Append(examined, <<self, k>>)
        /\ IF ~isValidInboxMessage(parsed)
             THEN /\ ~raises
                  /\ quarantine' = [quarantine EXCEPT ![self] =
                                      @ \cup {f \in inbox[self] : f.name = k}]
                  /\ inbox' = [inbox EXCEPT ![self] = {f \in @ : f.name # k}]
                  /\ msg' = [msg EXCEPT ![p].files = Tail(@)]
             ELSE /\ msg' = [msg EXCEPT ![p].files = Tail(@),
                               ![p].handled = Append(@, [name |-> k, message |-> parsed,
                                                         raised |-> raises,
                                                         deliverAs |-> deliverInboxMessage(parsed).deliverAs])]
                  /\ inbox' = IF raises THEN inbox
                              ELSE [inbox EXCEPT ![self] = {f \in @ : f.name # k}]
                  /\ quarantine' = quarantine
  /\ UNCHANGED <<notDir, log, result, uuid, msgCalls, kept, runs>>
  /\ UNCHANGED <<regVars, pathVars, toolVars, extVars>>

\* the loop is over; kept[p] remembers the files whose handler raised
ProcessInboxDone(p) ==
  /\ msg[p].op = "drain" /\ msg[p].stage = "loop"
  /\ msg[p].files = <<>>
  /\ msg' = [msg EXCEPT ![p].stage = "done"]
  /\ kept' = [kept EXCEPT ![p] =
                {msg[p].handled[i].name :
                   i \in {j \in 1..Len(msg[p].handled) : msg[p].handled[j].raised}}]
  /\ UNCHANGED <<inbox, notDir, quarantine, log, result, uuid, msgCalls, examined, runs>>
  /\ UNCHANGED <<regVars, pathVars, toolVars, extVars>>

\* ---- the log
\* the clearMessageLog of the earlier store: fs.unlinkSync(dirs.messageLog)
clearMessageLogUnlinks(l) ==
  <<>>

\* clearMessageLog(_dirs): intentionally a no-op
clearMessageLog(l) ==
  l

\* launchSubagentsInBackground: activeSubagentRuns += 1, and clearMessageLog
LaunchSubagentsInBackground(p) ==
  /\ MsgQuiet
  /\ msgCalls < MaxMsgCalls
  /\ msgCalls' = msgCalls + 1
  /\ runs' = [runs EXCEPT ![p] = @ + 1]
  /\ log' = clearMessageLog(log)
  /\ UNCHANGED <<inbox, notDir, quarantine, msg, result, uuid, kept, examined>>
  /\ UNCHANGED <<regVars, pathVars, toolVars, extVars>>

\* MsgSpec: the agents a and b send, broadcast and drain, one call at a
\* time. Each agent is not registered, registered by its running process,
\* or left registered by a dead process; the inbox path of b may be a file
\* instead of a directory; the inbox of a holds files of an earlier run.
LeftoverInbox ==
  { {},
    {InboxFile(1, Garbage),
     InboxFile(2, InboxMessage(2, "b", "a", <<"h">>, "direct", FALSE, "null"))},
    {InboxFile(1, InboxMessage(1, "b", "a", <<"h">>, "direct", FALSE, "null")),
     InboxFile(2, InboxMessage(2, "b", "a", <<"h">>, "direct", FALSE, "null"))} }

\* what the registry holds under a name: nothing, or the registration of the name by the process that runs
\* the agent or by a dead process
MsgFiles(n) ==
  {NoFile, Registration(n, DeadPid, "s1", 0)}
    \cup {Registration(n, q, "s1", 0) : q \in {r \in Procs : AgentOf(r) = n}}

MsgInit ==
  /\ InitProcs
  /\ NoPathCall
  /\ NoToolCall
  /\ NoExt
  /\ file \in {f \in [Names -> UNION {MsgFiles(n) : n \in Names}] :
                 \A n \in Names : f[n] \in MsgFiles(n)}
  /\ lock = [n \in Names |-> NoLock]
  /\ inbox \in {[n \in Names |-> IF n = "a" THEN box ELSE {}] : box \in LeftoverInbox}
  /\ notDir \in {{}, {"b"}}
  /\ quarantine = [n \in Names |-> {}]
  /\ log = <<>>
  /\ msg = [p \in Procs |-> NoMsg]
  /\ result = [p \in Procs |-> NoResult]
  /\ uuid = 3
  /\ msgCalls = 0
  /\ kept = [p \in Procs |-> {}]
  /\ examined = <<>>
  /\ runs = [p \in Procs |-> 0]

MsgNext ==
  \/ \E p \in Procs, to \in Names, text \in Texts, opt \in SendOptions :
       SendDirectStart(p, to, text, opt)
  \/ \E p \in Procs : SendDirectList(p)
  \/ \E p \in Procs : SendDirectDeliver(p)
  \/ \E p \in Procs, text \in Texts, opt \in SendOptions :
       \E from \in Senders(p) : SendBroadcastStart(p, from, text, opt)
  \/ \E p \in Procs : SendBroadcastList(p)
  \/ \E p \in Procs : SendBroadcastRecipients(p)
  \/ \E p \in Procs : SendBroadcastEnqueue(p)
  \/ \E p \in Procs : SendBroadcastLog(p)
  \/ \E p \in Procs : ProcessInboxStart(p)
  \/ \E p \in Procs, raises \in BOOLEAN : ProcessInboxFile(p, raises)
  \/ \E p \in Procs : ProcessInboxDone(p)
  \/ \E p \in Procs : LaunchSubagentsInBackground(p)
  \/ \E p \in Procs :
       \/ \E e \in Names : ListEntry(p, e)
       \/ Mkdir(p)
       \/ WriteOwner(p)
       \/ PruneCheck(p)
       \/ PruneUnlink(p)
       \/ Release(p)
       \/ ListDone(p)

MsgSpec == MsgInit /\ [][MsgNext]_vars

\* LogSpec: the calls of MsgSpec together with registerSelf and
\* unregisterSelf of the agents, one call at a time; agent a is registered or
\* not, agent b was left registered by a dead process, and the inbox of a
\* holds two files of an earlier run
LogInit ==
  /\ InitProcs
  /\ NoPathCall
  /\ NoToolCall
  /\ NoExt
  /\ file \in {f \in [Names -> UNION {MsgFiles(n) : n \in Names}] :
                 /\ f["a"] \in MsgFiles("a") \ {Leftover("a")}
                 /\ f["b"] = Leftover("b")}
  /\ lock = [n \in Names |-> NoLock]
  /\ inbox = [n \in Names |->
                IF n = "a"
                  THEN {InboxFile(1, Garbage),
                        InboxFile(2, InboxMessage(2, "b", "a", <<"h">>, "direct",
                                                  FALSE, "null"))}
                  ELSE {}]
  /\ notDir = {}
  /\ quarantine = [n \in Names |-> {}]
  /\ log = <<>>
  /\ msg = [p \in Procs |-> NoMsg]
  /\ result = [p \in Procs |-> NoResult]
  /\ uuid = 3
  /\ msgCalls = 0
  /\ kept = [p \in Procs |-> {}]
  /\ examined = <<>>
  /\ runs = [p \in Procs |-> 0]

LogNext ==
  \/ \E p \in Procs, to \in Names, text \in Texts :
       SendDirectStart(p, to, text, [urgent |-> FALSE, replyTo |-> "undefined"])
  \/ \E p \in Procs : SendDirectList(p)
  \/ \E p \in Procs : SendDirectDeliver(p)
  \/ \E p \in Procs :
       \E from \in Senders(p) :
         SendBroadcastStart(p, from, <<" ", "h", " ">>, [urgent |-> TRUE, replyTo |-> "r"])
  \/ \E p \in Procs : SendBroadcastList(p)
  \/ \E p \in Procs : SendBroadcastRecipients(p)
  \/ \E p \in Procs : SendBroadcastEnqueue(p)
  \/ \E p \in Procs : SendBroadcastLog(p)
  \/ \E p \in Procs : ProcessInboxStart(p)
  \/ \E p \in Procs, raises \in BOOLEAN : ProcessInboxFile(p, raises)
  \/ \E p \in Procs : ProcessInboxDone(p)
  \/ \E p \in Procs : LaunchSubagentsInBackground(p)
  \/ /\ MsgQuiet
     /\ clock < MaxLogCalls
     /\ \/ \E p \in Procs : StartRegister(p, AgentOf(p), "s1")
        \/ \E p \in Procs : StartUnregister(p, AgentOf(p), NoOwner)
  \/ \E p \in Procs :
       \/ Mkdir(p)
       \/ WriteOwner(p)
       \/ Release(p)
       \/ RegisterCheck(p)
       \/ Rename(p)
       \/ UnregisterCheck(p)
       \/ UnregisterUnlink(p)
       \/ \E e \in Names : ListEntry(p, e)
       \/ PruneCheck(p)
       \/ PruneUnlink(p)
       \/ ListDone(p)

LogSpec == LogInit /\ [][LogNext]_vars

\* ------------------------------------------------- reading the message log
\* a line of the log file, by what JSON.parse makes of it: an object with a
\* string id, an object whose id is no string, an object without id, a
\* value that is no object (null), or a throw (no JSON, or a blank line)
Event(id) == [parse |-> "object", idType |-> "string", id |-> id]

LogLines ==
  {Event("e1"), Event("e2"),
   [parse |-> "object", idType |-> "number"],
   [parse |-> "object", idType |-> "undefined"],
   [parse |-> "null"],
   [parse |-> "throws"]}

\* event && typeof event === "object" && typeof event.id === "string"
IsLogEvent(line) ==
  /\ line.parse = "object"
  /\ line.idType = "string"

\* readMessageLog(dirs): the loop over the lines, which pushes the events
RECURSIVE readMessageLog(_)
readMessageLog(lines) ==
  IF lines = <<>> THEN <<>>
  ELSE IF Head(lines).parse = "throws"
    THEN readMessageLog(Tail(lines))
  ELSE IF Head(lines).parse = "object" /\ Head(lines).idType = "string"
    THEN <<Head(lines)>> \o readMessageLog(Tail(lines))
    ELSE readMessageLog(Tail(lines))

\* Array.prototype.slice(start): a negative start counts from the end, and
\* -0 is 0
slice(arr, start) ==
  LET len == Len(arr)
      k == IF start < 0 THEN (IF len + start > 0 THEN len + start ELSE 0)
           ELSE (IF start < len THEN start ELSE len)
  IN SubSeq(arr, k + 1, len)

\* a variant of readMessageLogTail without the test of the limit
readMessageLogTailNoTest(lines, limit) ==
  slice(readMessageLog(lines), 0 - limit)

\* readMessageLogTail(dirs, limit)
readMessageLogTail(lines, limit) ==
  IF limit <= 0 THEN <<>>
  ELSE slice(readMessageLog(lines), 0 - limit)

\* the calls
ReadLog ==
  /\ ~reader.didAll
  /\ reader' = [reader EXCEPT !.didAll = TRUE, !.all = readMessageLog(reader.lines)]
  /\ UNCHANGED <<coreVars, pool, spawn, client, moreVars>>

ReadTail ==
  /\ ~reader.didTail
  /\ reader' = [reader EXCEPT !.didTail = TRUE,
                              !.tail = readMessageLogTail(reader.lines, reader.limit)]
  /\ UNCHANGED <<coreVars, pool, spawn, client, moreVars>>

\* ReadSpec: readMessageLog and readMessageLogTail on every log file of up to
\* MaxLogLines lines and every limit from -1 to MaxLogLines + 1
ReadInit ==
  /\ InitProcs
  /\ file = [n \in Names |-> NoFile]
  /\ lock = [n \in Names |-> NoLock]
  /\ NoPathCall
  /\ NoToolCall
  /\ NoMessaging
  /\ NoPool
  /\ NoSpawn
  /\ NoClient
  /\ NoMore
  /\ reader \in [lines : UNION {[1..k -> LogLines] : k \in 0..MaxLogLines},
                 limit : -1..(MaxLogLines + 1),
                 all : {<<>>}, tail : {<<>>}, didAll : {FALSE}, didTail : {FALSE}]

ReadNext == ReadLog \/ ReadTail

ReadSpec == ReadInit /\ [][ReadNext]_vars

(***************************************************************************)
(* mapWithConcurrencyLimit: max workers share the counter nextIndex; each  *)
(* worker claims an index, calls fn on it, and on the result stores it at   *)
(* that index and claims again.  The promises fn returns resolve in any     *)
(* order; a step is the synchronous code between two awaits.  fn is taken   *)
(* to resolve, as the fn of the parallel batch does: runSpawnTask reports   *)
(* the failure of a child as a result.                                      *)
(***************************************************************************)
ItemValues == {10, 40}

Max(a, b) == IF a >= b THEN a ELSE b

Min(a, b) == IF a <= b THEN a ELSE b

\* what fn(item, index) resolves to
fn(item, index) == [item |-> item, index |-> index]

\* a slot of new Array(n) that was never assigned
EmptySlot == [item |-> 0, index |-> -1]

Returned == [state |-> "returned", idx |-> -1]

Awaiting(idx) == [state |-> "awaiting", idx |-> idx]

\* one pass of the worker's loop up to its await or its return: idx is the
\* value of nextIndex++ the worker w gets
ClaimStep(w, idx, n) == IF idx >= n THEN Returned ELSE Awaiting(idx)

\* the claims after worker w got idx
Claimed(claims, w, idx) ==
  IF idx >= Len(claims) THEN claims
  ELSE [claims EXCEPT ![idx + 1] = Append(@, w)]

\* the claims after the workers 1..k each ran to their first await, in order
RECURSIVE FirstClaims(_, _)
FirstClaims(k, n) ==
  IF k = 0 THEN [i \in 1..n |-> <<>>]
  ELSE Claimed(FirstClaims(k - 1, n), k, k - 1)

\* max without the limit: one worker per item
poolSizePerItem(concurrency, n) ==
  Max(1, n)

poolSize(concurrency, n) ==
  Max(1, Min(concurrency, n))

SUBAGENT_MAX_CONCURRENCY == 4

\* the concurrency executeSubagentParams asks for, for a batch of n tasks
batchConcurrency(n) == Max(1, Min(SUBAGENT_MAX_CONCURRENCY, n))

\* the call up to the await of Promise.all
MapStart ==
  /\ pool.stage = "new"
  /\ LET n == Len(pool.items)
         max == poolSize(pool.concurrency, n)
     IN IF n = 0
        THEN pool' = [pool EXCEPT !.stage = "resolved", !.resolved = <<>>]
        ELSE pool' = [pool EXCEPT
                        !.stage = "running",
                        !.results = [i \in 1..n |-> EmptySlot],
                        !.workers = [w \in 1..max |-> ClaimStep(w, w - 1, n)],
                        !.claims = FirstClaims(max, n),
                        !.nextIndex = max]
  /\ UNCHANGED <<coreVars, reader, spawn, client, moreVars>>

\* results in the order of completion
StoreResultPush(results, idx, value) ==
  LET done == {i \in 1..Len(results) : results[i] # EmptySlot}
  IN [results EXCEPT ![Cardinality(done) + 1] = value]

StoreResult(results, idx, value) ==
  [results EXCEPT ![idx + 1] = value]

\* the promise of worker w's call of fn resolves: the worker stores the
\* result and goes round its loop once more
WorkerResume(w) ==
  /\ pool.stage = "running"
  /\ w \in 1..Len(pool.workers)
  /\ pool.workers[w].state = "awaiting"
  /\ LET n == Len(pool.items)
         idx == pool.workers[w].idx
         next == pool.nextIndex
     IN pool' = [pool EXCEPT
                   !.results = StoreResult(@, idx, fn(pool.items[idx + 1], idx)),
                   !.nextIndex = next + 1,
                   !.workers[w] = ClaimStep(w, next, n),
                   !.claims = Claimed(@, w, next),
                   !.finished = Append(@, idx)]
  /\ UNCHANGED <<coreVars, reader, spawn, client, moreVars>>

\* Promise.all(workers) resolves and the call returns results
MapResolve ==
  /\ pool.stage = "running"
  /\ \A w \in 1..Len(pool.workers) : pool.workers[w].state = "returned"
  /\ pool' = [pool EXCEPT !.stage = "resolved", !.resolved = pool.results]
  /\ UNCHANGED <<coreVars, reader, spawn, client, moreVars>>

\* PoolSpec: one call on every list of up to MaxItems items and every
\* concurrency from 0 to MaxItems + 1
PoolInit ==
  /\ InitProcs
  /\ file = [n \in Names |-> NoFile]
  /\ lock = [n \in Names |-> NoLock]
  /\ NoPathCall
  /\ NoToolCall
  /\ NoMessaging
  /\ NoLogRead
  /\ NoSpawn
  /\ NoClient
  /\ NoMore
  /\ pool \in [stage : {"new"},
               items : UNION {[1..k -> ItemValues] : k \in 0..MaxItems},
               concurrency : 0..(MaxItems + 1),
               nextIndex : {0}, workers : {<<>>}, results : {<<>>},
               claims : {<<>>}, finished : {<<>>}, resolved : {<<>>}]

PoolNext ==
  \/ MapStart
  \/ \E w \in 1..(MaxItems + 1) : WorkerResume(w)
  \/ MapResolve

PoolSpec == PoolInit /\ [][PoolNext]_vars

(***************************************************************************)
(* The spawn path: the subagent tool, the /subagent command,                *)
(* launchSubagentsInBackground and executeSubagentParams, for a chain of    *)
(* agent processes.  Agent 1 is started by the user; agent i + 1 is the     *)
(* first child agent i launched, as long as the chain has fewer than cap    *)
(* agents.  The other children of a run are counted.                        *)
(* A handler runs synchronously up to the first await of the run, which is  *)
(* behind the first calls of spawn(): one step.  registerSelf, which        *)
(* ensureRegistered calls for an agent that is not registered, succeeds or  *)
(* not (regOk).  Environment variables hold no number, a text that is not   *)
(* a finite number, or a number; PI_COLLAB_SUBAGENT_MAX_DEPTH, when it is   *)
(* a number, is a whole number from 0 to 3.                                 *)
(***************************************************************************)
SUBAGENT_MAX_PARALLEL == 8

SUBAGENT_DEFAULT_MAX_DEPTH == 2

EnvUnset == [set |-> FALSE, finite |-> FALSE, n |-> 0]

EnvJunk == [set |-> TRUE, finite |-> FALSE, n |-> 0]

EnvNum(k) == [set |-> TRUE, finite |-> TRUE, n |-> k]

\* Number(process.env.X ?? String(default)), then the isFinite fallback
EnvNumber(env, default, fallback) ==
  LET raw == IF env.set THEN env ELSE EnvNum(default)
  IN IF raw.finite THEN raw.n ELSE fallback

getSubagentDepthState(agent) ==
  LET depth == EnvNumber(agent.depthEnv, 0, 0)
      maxDepth == EnvNumber(agent.maxEnv, SUBAGENT_DEFAULT_MAX_DEPTH,
                            SUBAGENT_DEFAULT_MAX_DEPTH)
  IN [depth |-> depth, maxDepth |-> maxDepth, blocked |-> depth >= maxDepth]

\* the parameters of a request: task (absent or a text) and the length of
\* tasks (0 when tasks is absent)
NoTask == [present |-> FALSE, text |-> <<>>]

TaskParams == {NoTask} \cup {[present |-> TRUE, text |-> t] : t \in Texts}

TaskCounts == {0, 1, SUBAGENT_MAX_PARALLEL, SUBAGENT_MAX_PARALLEL + 1}

LaunchParams == [task : TaskParams, tasks : TaskCounts]

NoTaskParams == [task |-> NoTask, tasks |-> 0]

hasSingle(params) == params.task.present /\ Len(trim(params.task.text)) > 0

hasParallel(params) == params.tasks > 0

Number(b) == IF b THEN 1 ELSE 0

\* validation without the cap on the number of tasks
validateNoCap(params) ==
  IF Number(hasSingle(params)) + Number(hasParallel(params)) # 1
  THEN [ok |-> FALSE, mode |-> "none", taskCount |-> 0]
  ELSE IF hasParallel(params)
       THEN [ok |-> TRUE, mode |-> "parallel", taskCount |-> params.tasks]
       ELSE [ok |-> TRUE, mode |-> "single", taskCount |-> 1]

validateSubagentLaunchParams(params) ==
  IF Number(hasSingle(params)) + Number(hasParallel(params)) # 1
  THEN [ok |-> FALSE, mode |-> "none", taskCount |-> 0]
  ELSE IF hasParallel(params)
       THEN IF params.tasks > SUBAGENT_MAX_PARALLEL
            THEN [ok |-> FALSE, mode |-> "none", taskCount |-> 0]
            ELSE [ok |-> TRUE, mode |-> "parallel", taskCount |-> params.tasks]
       ELSE [ok |-> TRUE, mode |-> "single", taskCount |-> 1]

\* the run of an agent: the calls of runSpawnTask that are outstanding, and
\* whether the child that is the next agent of the chain is one of them
NoRun == [stage |-> "none", error |-> "none", n |-> 0, nextIndex |-> 0,
          inflight |-> 0, acting |-> FALSE]

Rejected(error) == [NoRun EXCEPT !.stage = "resolved", !.error = error]

Launching(n, workers) ==
  [stage |-> "running", error |-> "none", n |-> n, nextIndex |-> workers,
   inflight |-> workers, acting |-> FALSE]

\* executeSubagentParams without the test of the depth
executeNoDepthGuard(agent, params, regOk) ==
  IF Number(hasSingle(params)) + Number(hasParallel(params)) # 1
  THEN [run |-> Rejected("invalid_params"), registered |-> agent.registered]
  ELSE IF ~(agent.registered \/ regOk)
  THEN [run |-> Rejected("registration_failed"), registered |-> FALSE]
  ELSE IF hasSingle(params)
  THEN [run |-> Launching(1, 1), registered |-> TRUE]
  ELSE IF params.tasks > SUBAGENT_MAX_PARALLEL
  THEN [run |-> Rejected("too_many_tasks"), registered |-> TRUE]
  ELSE [run |-> Launching(params.tasks,
                          poolSize(batchConcurrency(params.tasks), params.tasks)),
        registered |-> TRUE]

\* executeSubagentParams up to its first await: the run it leaves, and
\* whether the agent is registered afterwards
executeSubagentParams(agent, params, regOk) ==
  IF Number(hasSingle(params)) + Number(hasParallel(params)) # 1
  THEN [run |-> Rejected("invalid_params"), registered |-> agent.registered]
  ELSE IF ~(agent.registered \/ regOk)
  THEN [run |-> Rejected("registration_failed"), registered |-> FALSE]
  ELSE IF getSubagentDepthState(agent).blocked
  THEN [run |-> Rejected("max_depth_reached"), registered |-> TRUE]
  ELSE IF hasSingle(params)
  THEN [run |-> Launching(1, 1), registered |-> TRUE]
  ELSE IF params.tasks > SUBAGENT_MAX_PARALLEL
  THEN [run |-> Rejected("too_many_tasks"), registered |-> TRUE]
  ELSE [run |-> Launching(params.tasks,
                          poolSize(batchConcurrency(params.tasks), params.tasks)),
        registered |-> TRUE]

\* the number PI_COLLAB_SUBAGENT_DEPTH gets in the environment of a child
ChildDepth(agent) == getSubagentDepthState(agent).depth + 1

NewAgent(depthEnv, maxEnv, registered) ==
  [depthEnv |-> depthEnv, maxEnv |-> maxEnv, alive |-> TRUE,
   registered |-> registered, activeSubagentRuns |-> 0, run |-> NoRun]

\* the chain after agent a called spawn(): the first child becomes the
\* next agent when a is the last of the chain and the chain is not full
WithChild(chain, a, spawned) ==
  IF spawned > 0 /\ a = Len(chain) /\ a < spawn.cap
  THEN Append([chain EXCEPT ![a].run.acting = TRUE],
              NewAgent(EnvNum(ChildDepth(chain[a])), chain[a].maxEnv, FALSE))
  ELSE chain

\* launchSubagentsInBackground with an executeSubagentParams that tests
\* state.registered and never calls registerSelf
launchRegisteredOnly(agent, params, regOk) ==
  LET out == executeSubagentParams(agent, params, FALSE)
  IN [agent EXCEPT !.activeSubagentRuns = @ + 1,
                   !.registered = out.registered,
                   !.run = out.run]

\* launchSubagentsInBackground up to the first await of the run
launchSubagentsInBackground(agent, params, regOk) ==
  LET out == executeSubagentParams(agent, params, regOk)
  IN [agent EXCEPT !.activeSubagentRuns = @ + 1,
                   !.registered = out.registered,
                   !.run = out.run]

\* launchSubagentsInBackground whatever the number of runs
GateOpen(agent) == FALSE

GateClosed(agent) ==
  agent.activeSubagentRuns > 0

\* an agent handles an event when it is alive and no continuation of its
\* run is waiting in the microtask queue
Idle(a) ==
  /\ a \in 1..Len(spawn.agents)
  /\ spawn.agents[a].alive
  /\ spawn.agents[a].run.stage # "resolved"
  /\ spawn.calls < MaxSpawnCalls

\* what a step says about itself: the request handled, the reply, the
\* number of calls of spawn() and the depth given to the children
Request(a, via, params, regOk, response, spawned) ==
  [agent |-> a, via |-> via, params |-> params, regOk |-> regOk,
   response |-> response, spawned |-> spawned,
   childDepth |-> IF spawned > 0 THEN ChildDepth(spawn.agents[a]) ELSE 0]

\* the state after a handler of agent a left it as agent, having launched
\* the first children of a run when launched holds
Handled(a, agent, via, params, regOk, response, launched) ==
  LET spawned == IF launched THEN agent.run.inflight ELSE 0
  IN [agents |-> WithChild([spawn.agents EXCEPT ![a] = agent], a, spawned),
      cap |-> spawn.cap,
      calls |-> spawn.calls + 1,
      last |-> Request(a, via, params, regOk, response, spawned)]

\* the execute handler of the subagent tool
SubagentTool(a, params, regOk) ==
  /\ Idle(a)
  /\ LET agent == spawn.agents[a]
         validation == validateSubagentLaunchParams(params)
     IN spawn' =
          IF ~validation.ok
          THEN Handled(a, agent, "tool", params, regOk, "invalid_params", FALSE)
          ELSE IF GateClosed(agent)
          THEN Handled(a, agent, "tool", params, regOk, "already_running", FALSE)
          ELSE Handled(a, launchSubagentsInBackground(agent, params, regOk),
                       "tool", params, regOk, "queued", TRUE)
  /\ UNCHANGED <<coreVars, reader, pool, client, moreVars>>

\* the arguments of the /subagent command
CommandArgs == {<<>>, <<" ">>, <<" ", "h", " ">>, <<"worker", " ", "h">>, <<"worker">>}

\* trimmed.replace(/^worker\s+/i, "")
StripWorker(t) ==
  IF Len(t) >= 2 /\ t[1] = "worker" /\ t[2] = " " THEN TrimStart(Tail(t)) ELSE t

\* the handler of the /subagent command
SubagentCommand(a, args, regOk) ==
  /\ Idle(a)
  /\ LET agent == spawn.agents[a]
         trimmed == trim(args)
         task == trim(StripWorker(trimmed))
         params == [task |-> [present |-> TRUE, text |-> task], tasks |-> 0]
     IN spawn' =
          IF trimmed = <<>>
          THEN Handled(a, agent, "command", params, regOk, "usage", FALSE)
          ELSE IF task = <<>>
          THEN Handled(a, agent, "command", params, regOk, "usage", FALSE)
          ELSE IF GateClosed(agent)
          THEN Handled(a, agent, "command", params, regOk, "already_running", FALSE)
          ELSE Handled(a, launchSubagentsInBackground(agent, params, regOk),
                       "command", params, regOk, "launching", TRUE)
  /\ UNCHANGED <<coreVars, reader, pool, client, moreVars>>

\* a child of the run of agent a exits: the promise of its runSpawnTask
\* resolves, and in a batch its worker takes the next index and launches
\* the next child, or returns; the run resolves with the last worker
ChildExit(a, acting) ==
  /\ a \in 1..Len(spawn.agents)
  /\ spawn.agents[a].alive
  /\ LET agent == spawn.agents[a]
         run == agent.run
         idx == run.nextIndex
         more == idx < run.n
         inflight == IF more THEN run.inflight ELSE run.inflight - 1
         after == [agent EXCEPT
                     !.run.nextIndex = idx + 1,
                     !.run.inflight = inflight,
                     !.run.acting = IF acting THEN FALSE ELSE @,
                     !.run.stage = IF inflight = 0 THEN "resolved" ELSE @]
     IN /\ run.stage = "running"
        /\ IF acting THEN run.acting
           ELSE run.inflight > Number(run.acting)
        /\ spawn' = [spawn EXCEPT
             !.agents = IF acting
                        THEN [@ EXCEPT ![a] = after, ![a + 1].alive = FALSE]
                        ELSE [@ EXCEPT ![a] = after],
             !.last = Request(a, "exit", NoTaskParams, FALSE, "none",
                              IF more THEN 1 ELSE 0)]
  /\ UNCHANGED <<coreVars, reader, pool, client, moreVars>>

\* a continuation that gives the gate back at the end of its try block: a
\* run that ends with an error keeps it
RunSettledInTry(a) ==
  /\ a \in 1..Len(spawn.agents)
  /\ spawn.agents[a].alive
  /\ spawn.agents[a].run.stage = "resolved"
  /\ spawn' = [spawn EXCEPT
       !.agents[a].activeSubagentRuns =
          IF spawn.agents[a].run.error = "exception" THEN @ ELSE Max(0, @ - 1),
       !.agents[a].run = NoRun,
       !.last = Request(a, "settled", NoTaskParams, FALSE,
                        spawn.agents[a].run.error, 0)]
  /\ UNCHANGED <<coreVars, reader, pool, client, moreVars>>

\* the continuation of launchSubagentsInBackground after the await of
\* executeSubagentParams, with its finally
RunSettled(a) ==
  /\ a \in 1..Len(spawn.agents)
  /\ spawn.agents[a].alive
  /\ spawn.agents[a].run.stage = "resolved"
  /\ spawn' = [spawn EXCEPT
       !.agents[a].activeSubagentRuns = Max(0, @ - 1),
       !.agents[a].run = NoRun,
       !.last = Request(a, "settled", NoTaskParams, FALSE,
                        spawn.agents[a].run.error, 0)]
  /\ UNCHANGED <<coreVars, reader, pool, client, moreVars>>

NoRequest == [agent |-> 0, via |-> "none", params |-> NoTaskParams, regOk |-> FALSE,
              response |-> "none", spawned |-> 0, childDepth |-> 0]

\* what the environment of an agent the user starts may hold
RootEnvDepth == {EnvUnset, EnvJunk}

RootEnvMax == {EnvUnset, EnvJunk} \cup {EnvNum(k) : k \in 0..3}

\* what a parent leaves in PI_COLLAB_SUBAGENT_DEPTH
ChildEnvDepth == {EnvNum(k) : k \in 1..3}

SpawnIdle ==
  /\ InitProcs
  /\ file = [n \in Names |-> NoFile]
  /\ lock = [n \in Names |-> NoLock]
  /\ NoPathCall
  /\ NoToolCall
  /\ NoMessaging
  /\ NoLogRead
  /\ NoPool

\* SpawnSpec: one agent, started by the user or by a parent, registered or
\* not, and every request
SpawnInit ==
  /\ SpawnIdle
  /\ NoClient
  /\ NoMore
  /\ \E d \in RootEnvDepth \cup ChildEnvDepth, m \in RootEnvMax, r \in BOOLEAN :
       spawn = [agents |-> <<NewAgent(d, m, r)>>, cap |-> 1, calls |-> 0,
                last |-> NoRequest]

SpawnNext ==
  \/ \E params \in LaunchParams, regOk \in BOOLEAN : SubagentTool(1, params, regOk)
  \/ \E args \in CommandArgs, regOk \in BOOLEAN : SubagentCommand(1, args, regOk)
  \/ ChildExit(1, FALSE)
  \/ RunSettled(1)

SpawnSpec == SpawnInit /\ [][SpawnNext]_vars

\* an await of executeSubagentParams throws while the run is in progress
\* (a runSpawnTask that cannot write its prompt file, for one): the promise
\* of the run is rejected, and the children in flight are awaited no longer
RunThrows(a) ==
  /\ a \in 1..Len(spawn.agents)
  /\ spawn.agents[a].alive
  /\ spawn.agents[a].run.stage = "running"
  /\ spawn' = [spawn EXCEPT
       !.agents[a].run.stage = "resolved",
       !.agents[a].run.error = "exception",
       !.last = Request(a, "throw", NoTaskParams, FALSE, "none", 0)]
  /\ UNCHANGED <<coreVars, reader, pool, client, moreVars>>

GateNext ==
  \/ \E params \in LaunchParams, regOk \in BOOLEAN : SubagentTool(1, params, regOk)
  \/ \E args \in CommandArgs, regOk \in BOOLEAN : SubagentCommand(1, args, regOk)
  \/ ChildExit(1, FALSE)
  \/ RunThrows(1)
  \/ RunSettled(1)

\* GateSpec: SpawnSpec with runs that throw; every child that was launched
\* exits, and a continuation that is ready runs
GateSpec ==
  /\ SpawnInit
  /\ [][GateNext]_vars
  /\ WF_vars(ChildExit(1, FALSE))
  /\ WF_vars(RunSettled(1))

\* ChainSpec: the agent the user starts and the chain of its descendants,
\* each asked for one subagent or for a batch
ChainParams == {[task |-> [present |-> TRUE, text |-> <<" ", "h", " ">>], tasks |-> 0],
                [task |-> NoTask, tasks |-> SUBAGENT_MAX_PARALLEL]}

ChainInit ==
  /\ SpawnIdle
  /\ NoClient
  /\ NoMore
  /\ \E d \in RootEnvDepth, m \in RootEnvMax, r \in BOOLEAN :
       spawn = [agents |-> <<NewAgent(d, m, r)>>, cap |-> MaxAgents, calls |-> 0,
                last |-> NoRequest]

ChainNext ==
  \/ \E a \in 1..MaxAgents, params \in ChainParams, regOk \in BOOLEAN :
       SubagentTool(a, params, regOk)
  \/ \E a \in 1..MaxAgents, regOk \in BOOLEAN :
       SubagentCommand(a, <<"worker", " ", "h">>, regOk)
  \/ \E a \in 1..MaxAgents, acting \in BOOLEAN : ChildExit(a, acting)
  \/ \E a \in 1..MaxAgents : RunSettled(a)

ChainSpec == ChainInit /\ [][ChainNext]_vars

(***************************************************************************)
(* sendPromptAndWaitTurnEnd: one call, from the creation of the socket to   *)
(* the settlement of its promise and beyond.  A step is one callback: the   *)
(* connect, data, error or close listener of the socket, or the timer.  A   *)
(* callback runs only while it is installed: done removes the listeners     *)
(* and clears the timer.  The peer sends lines in any order and number; a   *)
(* line is a JSON object of the wire format, a text JSON.parse rejects, or  *)
(* blank.  A data callback gets the complete lines that its chunk ends.     *)
(***************************************************************************)
Pending == [kind |-> "pending", error |-> "", assistantText |-> "", turnIndex |-> -1]

\* resolve(result) with a RemoteTurnResult
Resolve(assistantText, turnIndex) ==
  [kind |-> "resolved", error |-> "", assistantText |-> assistantText,
   turnIndex |-> turnIndex]

\* reject(new Error(error))
Reject(error) ==
  [kind |-> "rejected", error |-> error, assistantText |-> "", turnIndex |-> -1]

\* the data of a turn_end event: the content of the message ("undefined"
\* when the event has none) and the turn index (-1 when it has none)
TurnData == {[content |-> "done before ack", turnIndex |-> 7],
             [content |-> "", turnIndex |-> 8],
             [content |-> "undefined", turnIndex |-> -1]}

NoTurnData == [content |-> "null", turnIndex |-> -1]

TurnEnd(data) ==
  [type |-> "event", name |-> "turn_end", id |-> "", success |-> FALSE,
   error |-> "", data |-> data]

\* a response: name is the command, error "" stands for no error text
Response(command, id, success, error) ==
  [type |-> "response", name |-> command, id |-> id, success |-> success,
   error |-> error, data |-> NoTurnData]

OtherLine(type) ==
  [type |-> type, name |-> "", id |-> "", success |-> FALSE, error |-> "",
   data |-> NoTurnData]

\* what the peer can send
Lines ==
  {Response("send", "sendId", TRUE, ""),
   Response("send", "sendId", FALSE, "rejected by test server"),
   Response("send", "sendId", FALSE, ""),
   Response("send", "otherId", FALSE, "stale"),
   Response("subscribe", "subId", TRUE, ""),
   [OtherLine("event") EXCEPT !.name = "agent_start"],
   OtherLine("unparsable"),
   OtherLine("blank")}
  \cup {TurnEnd(d) : d \in TurnData}

Chunks == UNION {[1..k -> Lines] : k \in 1..MaxChunkLines}

\* the call before its socket connects
NewClient ==
  [connected |-> FALSE, closed |-> FALSE, listeners |-> TRUE, timer |-> TRUE,
   sendAcked |-> FALSE, pendingTurnEndData |-> NoTurnData, settled |-> FALSE,
   outcome |-> Pending, settles |-> 0, written |-> 0, events |-> 0,
   sawTurnEnd |-> FALSE, lastTurnEnd |-> NoTurnData, failure |-> "none",
   last |-> "none"]

\* done that neither tests settled nor removes the listeners and the timer
doneUnguarded(c, outcome) ==
  [c EXCEPT !.settled = TRUE, !.outcome = outcome, !.settles = @ + 1]

done(c, outcome) ==
  IF c.settled THEN c
  ELSE [c EXCEPT !.settled = TRUE, !.timer = FALSE, !.listeners = FALSE,
                 !.outcome = outcome, !.settles = @ + 1]

finishFromTurnEnd(c, data) ==
  done(c, Resolve(IF data.content \in {"", "undefined"} THEN "" ELSE data.content,
                  data.turnIndex))

\* the next line of the loop of the data listener is looked at
Continue(c) == [c |-> c, return |-> FALSE]

\* the data listener returns
Return(c) == [c |-> c, return |-> TRUE]

\* the response to the send command that lets a buffered turn_end win
onSendResponseBuffered(c, line) ==
  IF c.pendingTurnEndData # NoTurnData
  THEN Return(finishFromTurnEnd([c EXCEPT !.sendAcked = TRUE], c.pendingTurnEndData))
  ELSE IF ~line.success
  THEN Return(done(c,
                   Reject(IF line.error = "" THEN "Remote session rejected message"
                          ELSE line.error)))
  ELSE Continue([c EXCEPT !.sendAcked = TRUE])

\* the response to the send command
onSendResponse(c, line) ==
  IF ~line.success
  THEN Return(done(c,
                   Reject(IF line.error = "" THEN "Remote session rejected message"
                          ELSE line.error)))
  ELSE IF c.pendingTurnEndData # NoTurnData
  THEN Return(finishFromTurnEnd([c EXCEPT !.sendAcked = TRUE], c.pendingTurnEndData))
  ELSE Continue([c EXCEPT !.sendAcked = TRUE])

\* a turn_end event that resolves the call whether or not the send was
\* acknowledged
onTurnEndAtOnce(c, data) ==
  Return(finishFromTurnEnd([c EXCEPT !.sawTurnEnd = TRUE, !.lastTurnEnd = data], data))

\* a turn_end event
onTurnEnd(c, data) ==
  IF ~c.sendAcked
  THEN Continue([c EXCEPT !.sawTurnEnd = TRUE, !.lastTurnEnd = data,
                          !.pendingTurnEndData = data])
  ELSE Return(finishFromTurnEnd([c EXCEPT !.sawTurnEnd = TRUE, !.lastTurnEnd = data],
                                data))

\* one pass of the loop of the data listener
onLine(c, line) ==
  IF line.type \in {"blank", "unparsable"} THEN Continue(c)
  ELSE IF line.type = "response"
  THEN IF line.name = "send" /\ line.id = "sendId"
       THEN onSendResponse([c EXCEPT !.failure = IF line.success THEN @ ELSE line.error],
                           line)
       ELSE Continue(c)
  ELSE IF line.type = "event" /\ line.name = "turn_end"
  THEN onTurnEnd(c, line.data)
  ELSE Continue(c)

\* the data listener on the lines of a chunk
RECURSIVE onData(_, _)
onData(c, lines) ==
  IF lines = <<>> THEN c
  ELSE LET r == onLine(c, Head(lines))
       IN IF r.return THEN r.c ELSE onData(r.c, Tail(lines))

\* the socket emits an event: one more is counted
SocketEvent ==
  /\ client.events < MaxClientEvents
  /\ ~client.closed

\* 'connect': the subscribe and the send command are written
Connect ==
  /\ SocketEvent
  /\ ~client.connected
  /\ client' = IF client.listeners
               THEN [client EXCEPT !.connected = TRUE, !.written = 2,
                                   !.events = @ + 1, !.last = "connect"]
               ELSE [client EXCEPT !.connected = TRUE, !.events = @ + 1,
                                   !.last = "connect"]
  /\ UNCHANGED <<coreVars, reader, pool, spawn, moreVars>>

\* 'data'
Data(chunk) ==
  /\ SocketEvent
  /\ client.connected
  /\ client' = IF client.listeners
               THEN [onData(client, chunk) EXCEPT !.events = @ + 1, !.last = "data"]
               ELSE [client EXCEPT !.events = @ + 1, !.last = "data"]
  /\ UNCHANGED <<coreVars, reader, pool, spawn, moreVars>>

\* 'error'
SocketError ==
  /\ SocketEvent
  /\ client' = IF client.listeners
               THEN [done(client, Reject("socket error"))
                       EXCEPT !.events = @ + 1, !.last = "error"]
               ELSE [client EXCEPT !.events = @ + 1, !.last = "error"]
  /\ UNCHANGED <<coreVars, reader, pool, spawn, moreVars>>

\* 'close': the last event of the socket
SocketClose ==
  /\ SocketEvent
  /\ client' =
       IF client.listeners /\ ~client.settled
       THEN [done(client, Reject("Remote control socket closed before response"))
               EXCEPT !.events = @ + 1, !.closed = TRUE, !.last = "close"]
       ELSE [client EXCEPT !.events = @ + 1, !.closed = TRUE, !.last = "close"]
  /\ UNCHANGED <<coreVars, reader, pool, spawn, moreVars>>

\* the timer of waitMs fires
Timeout ==
  /\ client.timer
  /\ client' = [done(client, Reject("Timed out waiting for remote turn completion"))
                  EXCEPT !.timer = FALSE, !.last = "timer"]
  /\ UNCHANGED <<coreVars, reader, pool, spawn, moreVars>>

ClientInit ==
  /\ SpawnIdle
  /\ NoSpawn
  /\ NoMore
  /\ client = NewClient

ClientNext ==
  \/ Connect
  \/ \E chunk \in Chunks : Data(chunk)
  \/ SocketError
  \/ SocketClose
  \/ Timeout

\* ClientSpec: the callbacks in any order
ClientSpec == ClientInit /\ [][ClientNext]_vars

\* ClientLiveSpec: the timer fires unless it is cleared
ClientLiveSpec == ClientSpec /\ WF_vars(Timeout)

\* ------------------------------------------------- the names of the children
\* subagent-spawn.ts: hashString, generateCallsignCandidate and
\* reserveReadableCallsign.  A string is the sequence of its character codes;
\* a 32-bit number is kept as its two 16-bit halves, so that the
\* multiplication of Math.imul wraps as it does in the program.

\* the number of words of CALLSIGN_FIRST_WORDS and of CALLSIGN_SECOND_WORDS
CALLSIGN_FIRST_WORDS == 22
CALLSIGN_SECOND_WORDS == 23

\* for (let nonce = 0; nonce < 128; nonce++)
NONCE_LIMIT == 128

\* the launches of a run whose task indices are drawn in any order
MaxLaunches == 3

\* the character codes of "0", of ":" and of "a"
Zero == 48
Colon == 58
LetterA == 97

\* the identifiers of the runs: eight lower-case hexadecimal digits
RunIds ==
  { <<Zero, Zero, Zero, Zero, Zero, Zero, Zero, Zero>>,
    <<LetterA, Zero + 3, LetterA + 5, Zero, Zero + 9, LetterA + 2, Zero + 1,
      LetterA + 4>>,
    <<LetterA + 5, LetterA + 5, LetterA + 5, LetterA + 5, LetterA + 5,
      LetterA + 5, LetterA + 5, LetterA + 5>> }

\* `${n}` of a whole number n >= 0
RECURSIVE Decimal(_)
Decimal(n) ==
  IF n < 10 THEN <<Zero + n>> ELSE Decimal(n \div 10) \o <<Zero + (n % 10)>>

\* a ^ b on numbers of the given number of bits
RECURSIVE Xor(_, _, _)
Xor(a, b, bits) ==
  IF bits = 0 THEN 0
  ELSE ((a + b) % 2) + 2 * Xor(a \div 2, b \div 2, bits - 1)

\* Math.imul(hash, 16777619): 16777619 is 2^24 + 403
imul(h) ==
  [lo |-> (h.lo * 403) % 65536,
   hi |-> (h.hi * 403 + ((h.lo * 403) \div 65536) + (h.lo % 256) * 256) % 65536]

\* the hash after the characters value[i..]; it starts from 2166136261
RECURSIVE hashFrom(_, _, _)
hashFrom(h, value, i) ==
  IF i > Len(value) THEN h
  ELSE hashFrom(imul([hi |-> h.hi, lo |-> Xor(h.lo, value[i], 16)]), value, i + 1)

hashString(value) == hashFrom([hi |-> 33052, lo |-> 40389], value, 1)

\* hash % m and Math.floor(hash / m) of a 32-bit hash, for a small m
HashMod(h, m) == ((h.hi % m) * (65536 % m) + h.lo) % m
HashDiv(h, m) == (h.hi \div m) * 65536 + (((h.hi % m) * 65536 + h.lo) \div m)

\* a candidate is the pair of the positions of its two words: no two pairs
\* spell the same callsign, the second word alone starting with a capital
generateCallsignCandidate(runId, index, nonce) ==
  LET hash == hashString(runId \o <<Colon>> \o Decimal(index) \o <<Colon>>
                         \o Decimal(nonce))
  IN  [first |-> HashMod(hash, CALLSIGN_FIRST_WORDS),
       second |-> (HashDiv(hash, CALLSIGN_FIRST_WORDS) + nonce)
                    % CALLSIGN_SECOND_WORDS]

\* the loop of reserveReadableCallsign from the given nonce on, and its
\* fallback; the result is the callsign and the nonce that gave it
RECURSIVE reserveFrom(_, _, _, _)
reserveFrom(used, runId, index, nonce) ==
  IF nonce >= NONCE_LIMIT
  THEN [callsign |-> generateCallsignCandidate(runId, index, 0), nonce |-> -1]
  ELSE LET callsign == generateCallsignCandidate(runId, index, nonce)
       IN  IF callsign \notin used
           THEN [callsign |-> callsign, nonce |-> nonce]
           ELSE reserveFrom(used, runId, index, nonce + 1)

\* a reservation that takes the first candidate whatever was given before
reserveFirstCandidate(used, runId, index) ==
  [callsign |-> generateCallsignCandidate(runId, index, 0), nonce |-> 0]

reserveReadableCallsign(used, runId, index) ==
  reserveFrom(used, runId, index, 0)

\* runSpawnTask, its first statement: the child of task `index` gets its
\* callsign.  A batch launches its tasks 0, 1, ... in this order, at most
\* SUBAGENT_MAX_PARALLEL of them; the first MaxLaunches launches take any
\* index, also one taken before.
ReserveCallsign(index) ==
  /\ callsigns.runId # <<>>
  /\ \/ Len(callsigns.launched) < MaxLaunches
     \/ /\ index = Len(callsigns.launched)
        /\ \A k \in 1..Len(callsigns.launched) :
             callsigns.launched[k].index = k - 1
  /\ LET got == reserveReadableCallsign(callsigns.used, callsigns.runId, index)
     IN  callsigns' =
           [callsigns EXCEPT
              !.used = @ \cup {got.callsign},
              !.launched = Append(@, [index |-> index, callsign |-> got.callsign,
                                      nonce |-> got.nonce])]
  /\ UNCHANGED <<coreVars, reader, pool, spawn, client, batch, mailbox, watcher, lastVars>>

CallsignInit ==
  /\ SpawnIdle
  /\ NoSpawn
  /\ NoClient
  /\ NoBatch
  /\ NoMailbox
  /\ NoWatcher
  /\ NoLast
  /\ \E runId \in RunIds :
       callsigns = [runId |-> runId, used |-> {}, launched |-> <<>>]

CallsignNext == \E index \in 0..(SUBAGENT_MAX_PARALLEL - 1) : ReserveCallsign(index)

\* CallsignSpec: the launches of one run
CallsignSpec == CallsignInit /\ [][CallsignNext]_vars

\* ------------------------------------------------- the children of a run
\* subagent-spawn.ts, runSpawnTask: the SpawnResult, the promise of the exit
\* code and the handlers of the child process; part_003, executeSubagentParams:
\* the report of the single child or of the batch.  A text is the name of
\* where it came from: the last assistant message, the standard error, the
\* message of the spawn error, or the literal the code puts in its place.

\* the tasks of a batch
MaxTasks == 2

\* the SpawnResult as runSpawnTask creates it (lines 444-462)
NewResult == [exitCode |-> 1, output |-> "", error |-> "undefined", sessionId |-> FALSE]

\* !text
Falsy(text) == text \in {"undefined", ""}

NoCode == [null |-> TRUE, n |-> 0]
ExitCode(n) == [null |-> FALSE, n |-> n]

\* what 'close' reports: the exit code of the child, or null when a signal
\* ended it
ExitCodes == {ExitCode(0), ExitCode(2), NoCode}

\* what 'close' reports after a failed spawn: the negative error number
SpawnFailedCode == ExitCode(-2)

\* code ?? 0
Coalesce(code) == IF code.null THEN 0 ELSE code.n

\* one call of runSpawnTask
NewTask ==
  [stage |-> "called", started |-> FALSE, proc |-> "none", code |-> NoCode,
   promise |-> [state |-> "pending", value |-> 0],
   result |-> NewResult, stderr |-> FALSE, lastAssistant |-> FALSE,
   returned |-> [set |-> FALSE, result |-> NewResult]]

\* resolve(value): only the first call settles the promise
resolveExit(t, value) ==
  IF t.promise.state = "pending"
  THEN [t EXCEPT !.promise = [state |-> "resolved", value |-> value]]
  ELSE t

\* the lines of the standard output: the session line, the end of an
\* assistant message with text, and any other line
StdoutLines == {"session", "assistant", "other"}

processLine(t, line) ==
  CASE line = "session" -> [t EXCEPT !.result.sessionId = TRUE]
    [] line = "assistant" -> [t EXCEPT !.lastAssistant = TRUE]
    [] OTHER -> t

\* proc.on("close"): rest is the unfinished last line of stdoutBuffer, "none"
\* when it is blank
onClose(t, code, rest) ==
  LET t1 == IF rest # "none" THEN processLine(t, rest) ELSE t
      output == IF t1.lastAssistant THEN "assistant"
                ELSE IF t1.stderr THEN "stderr" ELSE "(no output)"
      t2 == [t1 EXCEPT !.result.output = output,
                       !.result.error =
                          IF Coalesce(code) # 0 /\ t1.stderr THEN "stderr" ELSE @]
  IN  resolveExit(t2, Coalesce(code))

\* an error handler that rejects the promise
onErrorReject(t) ==
  [t EXCEPT !.promise = IF @.state = "pending"
                        THEN [state |-> "rejected", value |-> 0] ELSE @]

\* proc.on("error")
onError(t) ==
  resolveExit([t EXCEPT !.result.error = "message", !.result.output = "message"], 1)

\* the rest of runSpawnTask once the promise is settled (lines 541-555)
afterExit(t) ==
  IF t.promise.state = "rejected" THEN [t EXCEPT !.stage = "threw"]
  ELSE LET exitCode == t.promise.value
           error == IF exitCode # 0 /\ Falsy(t.result.error)
                    THEN (IF Falsy(t.result.output) THEN "Subagent process failed"
                          ELSE t.result.output)
                    ELSE t.result.error
           settled == [t.result EXCEPT !.exitCode = exitCode, !.error = error]
       IN  [t EXCEPT !.stage = "returned", !.result = settled,
                     !.returned = [set |-> TRUE, result |-> settled]]

NoOutcome == [kind |-> "none", successCount |-> 0, total |-> 0, isError |-> FALSE]

\* the number of results with exit code 0
SuccessCount(results) ==
  Cardinality({i \in 1..Len(results) : results[i].exitCode = 0})

\* what executeSubagentParams returns for the results of its children
reportOf(mode, results) ==
  IF mode = "single"
  THEN [kind |-> "single", successCount |-> SuccessCount(results), total |-> 1,
        isError |-> results[1].exitCode # 0]
  ELSE [kind |-> "parallel", successCount |-> SuccessCount(results),
        total |-> Len(results),
        isError |-> SuccessCount(results) # Len(results)]

\* spawn("pi", args, ...): the child starts, or it does not and the failure
\* is reported by the 'error' event
SpawnChild(i, ok) ==
  /\ i \in 1..Len(batch.tasks)
  /\ batch.tasks[i].stage = "called"
  /\ batch' = [batch EXCEPT !.tasks[i].stage = "waiting",
                            !.tasks[i].started = ok,
                            !.tasks[i].proc = IF ok THEN "running" ELSE "failed"]
  /\ UNCHANGED <<coreVars, reader, pool, spawn, client, callsigns, mailbox, watcher, lastVars>>

\* proc.stdout.on("data"), one complete line
StdoutLine(i, line) ==
  /\ i \in 1..Len(batch.tasks)
  /\ batch.tasks[i].proc = "running"
  /\ batch' = [batch EXCEPT !.tasks[i] = processLine(@, line)]
  /\ UNCHANGED <<coreVars, reader, pool, spawn, client, callsigns, mailbox, watcher, lastVars>>

\* proc.stderr.on("data"): text tells whether the chunk is more than blanks
StderrChunk(i, text) ==
  /\ i \in 1..Len(batch.tasks)
  /\ batch.tasks[i].proc = "running"
  /\ batch' = [batch EXCEPT !.tasks[i].stderr = @ \/ text]
  /\ UNCHANGED <<coreVars, reader, pool, spawn, client, callsigns, mailbox, watcher, lastVars>>

\* 'error': the child could not be spawned
ChildError(i) ==
  /\ i \in 1..Len(batch.tasks)
  /\ batch.tasks[i].proc = "failed"
  /\ batch' = [batch EXCEPT !.tasks[i] = [onError(@) EXCEPT !.proc = "errored"]]
  /\ UNCHANGED <<coreVars, reader, pool, spawn, client, callsigns, mailbox, watcher, lastVars>>

\* 'close': the child has ended and its streams are closed; after a failed
\* spawn it follows 'error'
ChildClose(i, code, rest) ==
  /\ i \in 1..Len(batch.tasks)
  /\ \/ batch.tasks[i].proc = "running" /\ code \in ExitCodes
     \/ batch.tasks[i].proc = "errored" /\ code = SpawnFailedCode /\ rest = "none"
  /\ batch' = [batch EXCEPT
                 !.tasks[i] = [onClose(@, code, rest) EXCEPT !.proc = "closed",
                                                            !.code = code]]
  /\ UNCHANGED <<coreVars, reader, pool, spawn, client, callsigns, mailbox, watcher, lastVars>>

\* the await of the exit code is over
ResumeTask(i) ==
  /\ i \in 1..Len(batch.tasks)
  /\ batch.tasks[i].stage = "waiting"
  /\ batch.tasks[i].promise.state # "pending"
  /\ batch' = [batch EXCEPT !.tasks[i] = afterExit(@)]
  /\ UNCHANGED <<coreVars, reader, pool, spawn, client, callsigns, mailbox, watcher, lastVars>>

\* executeSubagentParams after its await: a thrown task makes it throw
Aggregate ==
  /\ batch.outcome.kind = "none"
  /\ batch.tasks # <<>>
  /\ \/ \A i \in 1..Len(batch.tasks) : batch.tasks[i].stage = "returned"
     \/ \E i \in 1..Len(batch.tasks) : batch.tasks[i].stage = "threw"
  /\ batch' =
       [batch EXCEPT
          !.outcome =
             IF \E i \in 1..Len(batch.tasks) : batch.tasks[i].stage = "threw"
             THEN [NoOutcome EXCEPT !.kind = "threw"]
             ELSE reportOf(batch.mode,
                           [i \in 1..Len(batch.tasks) |-> batch.tasks[i].result])]
  /\ UNCHANGED <<coreVars, reader, pool, spawn, client, callsigns, mailbox, watcher, lastVars>>

\* a single task, or a batch small enough for all its tasks to run at once
BatchInit ==
  /\ SpawnIdle
  /\ NoSpawn
  /\ NoClient
  /\ NoCallsigns
  /\ NoMailbox
  /\ NoWatcher
  /\ NoLast
  /\ \E mode \in {"single", "parallel"} :
       \E n \in 1..(IF mode = "single" THEN 1 ELSE MaxTasks) :
         batch = [mode |-> mode, tasks |-> [i \in 1..n |-> NewTask],
                  outcome |-> NoOutcome]

BatchNext ==
  \/ \E i \in 1..MaxTasks, ok \in BOOLEAN : SpawnChild(i, ok)
  \/ \E i \in 1..MaxTasks, line \in StdoutLines : StdoutLine(i, line)
  \/ \E i \in 1..MaxTasks, text \in BOOLEAN : StderrChunk(i, text)
  \/ \E i \in 1..MaxTasks : ChildError(i)
  \/ \E i \in 1..MaxTasks, code \in ExitCodes \cup {SpawnFailedCode},
        rest \in {"none", "session", "assistant"} : ChildClose(i, code, rest)
  \/ \E i \in 1..MaxTasks : ResumeTask(i)
  \/ Aggregate

\* BatchSpec: the events of the children in any order
BatchSpec == BatchInit /\ [][BatchNext]_vars

\* ------------------------------------------------- the order of a drain
\* enqueueInboxMessage names a file `${Date.now()}-${process.pid}-${randomUUID()}.json`
\* and processInbox handles readdirSync(dir).filter(.json).sort(): the names
\* are compared as strings, code unit by code unit.  A name is the sequence
\* of its character codes.

\* Date.now() is EpochMillions * 10^6 + mailbox.now: a number of 13 digits
EpochMillions == 1700000

\* the messages enqueued, and the milliseconds that pass
MaxEnqueued == 2
MaxTicks == 2

\* the character code of "-"
Hyphen == 45

\* ".json"
DotJson == <<46, 106, 115, 111, 110>>

\* the last `width` digits of `${n}`, with leading zeros
RECURSIVE Padded(_, _)
Padded(n, width) ==
  IF width = 0 THEN <<>>
  ELSE Padded(n \div 10, width - 1) \o <<Zero + (n % 10)>>

\* `${Date.now()}`
DateNowText(now) == Decimal(EpochMillions) \o Padded(now, 6)

\* the process ids and the random identifiers of the senders
SenderPids == {7, 12}
RandomIds == {<<LetterA>>, <<LetterA + 1>>}

fileName(now, pid, id) ==
  DateNowText(now) \o <<Hyphen>> \o Decimal(pid) \o <<Hyphen>> \o id \o DotJson

\* a < b for strings, as Array.prototype.sort compares them
RECURSIVE Less(_, _)
Less(a, b) ==
  IF a = <<>> THEN b # <<>>
  ELSE IF b = <<>> THEN FALSE
  ELSE IF Head(a) # Head(b) THEN Head(a) < Head(b)
  ELSE Less(Tail(a), Tail(b))

\* a listing in the opposite order
RECURSIVE sortDescending(_)
sortDescending(files) ==
  IF files = {} THEN <<>>
  ELSE LET last == CHOOSE f \in files :
                     \A g \in files \ {f} : Less(g.name, f.name)
       IN  <<last>> \o sortDescending(files \ {last})

\* readdirSync(dir).filter((f) => f.endsWith(".json")).sort()
RECURSIVE sortFiles(_)
sortFiles(files) ==
  IF files = {} THEN <<>>
  ELSE LET first == CHOOSE f \in files :
                      \A g \in files \ {f} : Less(f.name, g.name)
       IN  <<first>> \o sortFiles(files \ {first})

\* a millisecond passes
Tick ==
  /\ mailbox.ticks < MaxTicks
  /\ mailbox' = [mailbox EXCEPT !.now = @ + 1, !.ticks = @ + 1]
  /\ UNCHANGED <<coreVars, reader, pool, spawn, client, callsigns, batch, watcher, lastVars>>

\* enqueueInboxMessage by the process pid; valid tells whether the file
\* holds an InboxMessage
EnqueueAt(pid, id, valid) ==
  /\ mailbox.sent < MaxEnqueued
  /\ \A f \in mailbox.files : f.name # fileName(mailbox.now, pid, id)
  /\ mailbox' =
       [mailbox EXCEPT
          !.sent = @ + 1,
          !.files = @ \cup {[name |-> fileName(mailbox.now, pid, id),
                             time |-> mailbox.now, sent |-> mailbox.sent + 1,
                             valid |-> valid]}]
  /\ UNCHANGED <<coreVars, reader, pool, spawn, client, callsigns, batch, watcher, lastVars>>

\* processInbox: the files are listed and sorted; an invalid one is moved to
\* .invalid, a valid one is handed to the handler and deleted unless the
\* handler raises (the handler raises for the messages sent by `raisesFor`)
DrainInbox(raisesFor) ==
  /\ mailbox.files # {}
  /\ LET files == sortFiles(mailbox.files)
         IsValid(f) == f.valid
     IN  mailbox' =
           [mailbox EXCEPT
              !.drains = 1,
              !.handled = SelectSeq(files, IsValid),
              !.files = {f \in @ : f.valid /\ f.sent \in raisesFor}]
  /\ UNCHANGED <<coreVars, reader, pool, spawn, client, callsigns, batch, watcher, lastVars>>

OrderInit ==
  /\ SpawnIdle
  /\ NoSpawn
  /\ NoClient
  /\ NoCallsigns
  /\ NoBatch
  /\ NoWatcher
  /\ NoLast
  /\ \E now \in {8, 98} :
       mailbox = [now |-> now, ticks |-> 0, sent |-> 0, files |-> {},
                  drains |-> 0, handled |-> <<>>]

OrderNext ==
  \/ Tick
  \/ \E pid \in SenderPids, id \in RandomIds, valid \in BOOLEAN :
       EnqueueAt(pid, id, valid)
  \/ \E raisesFor \in SUBSET (1..MaxEnqueued) : DrainInbox(raisesFor)

\* OrderSpec: one inbox, its senders and its drains
OrderSpec == OrderInit /\ [][OrderNext]_vars

\* ------------------------------------------------- the watcher of the inbox
\* part_003, startWatcher and processInboxNow: the inbox is drained once,
\* then fs.watch is registered, and from then on a change of the directory
\* arms a debounce timer whose callback drains the inbox.  The senders are
\* other processes: they add a file to the directory at any time.

\* the messages other agents send while the watcher starts and runs
MaxArrivals == 3

\* processInboxNow: every file present is handed to deliverInboxMessage, and
\* deleted unless the handler raises (for the messages of raisesFor)
processInboxNow(w, raisesFor) ==
  [w EXCEPT !.handed = @ \cup w.files,
            !.files = w.files \cap raisesFor]

\* startWatcher, lines 334-339: stopWatcher, mkdirSync, processInboxNow
InitialDrain(raisesFor) ==
  /\ watcher.stage = "starting"
  /\ watcher' = [processInboxNow(watcher, raisesFor) EXCEPT !.stage = "drained"]
  /\ UNCHANGED <<coreVars, reader, pool, spawn, client, callsigns, batch, mailbox, lastVars>>

\* startWatcher, lines 341-349: fs.watch(inboxPath, callback)
RegisterWatch ==
  /\ watcher.stage = "drained"
  /\ watcher' = [watcher EXCEPT !.stage = "watching"]
  /\ UNCHANGED <<coreVars, reader, pool, spawn, client, callsigns, batch, mailbox, lastVars>>

\* enqueueInboxMessage of another process renames a message file into the
\* inbox; the callback of a registered watch clears the timer and sets it
Arrival ==
  /\ watcher.stage # "none"
  /\ watcher.sent < MaxArrivals
  /\ watcher' = [watcher EXCEPT
                   !.sent = @ + 1,
                   !.files = @ \cup {watcher.sent + 1},
                   !.timer = @ \/ watcher.stage = "watching"]
  /\ UNCHANGED <<coreVars, reader, pool, spawn, client, callsigns, batch, mailbox, lastVars>>

\* the debounce timer fires: processInboxNow; the files it deletes change
\* the watched directory, which arms the timer again
DebounceFires(raisesFor) ==
  /\ watcher.stage = "watching"
  /\ watcher.timer
  /\ watcher' = [processInboxNow(watcher, raisesFor) EXCEPT
                   !.timer = (watcher.files \ raisesFor) # {}]
  /\ UNCHANGED <<coreVars, reader, pool, spawn, client, callsigns, batch, mailbox, lastVars>>

WatchInit ==
  /\ SpawnIdle
  /\ NoSpawn
  /\ NoClient
  /\ NoCallsigns
  /\ NoBatch
  /\ NoMailbox
  /\ NoLast
  /\ \E left \in SUBSET {0, -1} :
       watcher = [stage |-> "starting", files |-> left, handed |-> {},
                  timer |-> FALSE, sent |-> 0]

WatchNext ==
  \/ \E raisesFor \in SUBSET (-1..MaxArrivals) : InitialDrain(raisesFor)
  \/ RegisterWatch
  \/ Arrival
  \/ \E raisesFor \in SUBSET (-1..MaxArrivals) : DebounceFires(raisesFor)

\* WatchSpec: startWatcher runs to its end and the timer fires when it is
\* set; nothing obliges another message to arrive
WatchSpec ==
  /\ WatchInit
  /\ [][WatchNext]_vars
  /\ WF_vars(\E raisesFor \in SUBSET (-1..MaxArrivals) : InitialDrain(raisesFor))
  /\ WF_vars(RegisterWatch)
  /\ WF_vars(\E raisesFor \in SUBSET (-1..MaxArrivals) : DebounceFires(raisesFor))

\* ------------------------------------------ the reservations of one agent
\* The reserve and release actions of agent_message (index.ts) of one agent,
\* which is registered and alive, and the registration record of its name.
\* A reservation is modelled by its pattern; its reason and the time `since`
\* are left out, and so are the other fields of the registration.

\* the failures of writeFileAtomic that are looked at
MaxWriteFaults == 1

\* the patterns an agent may reserve
ReservablePatterns == {"a", "b"}

\* the paths parameter: not an array, or an array of patterns and blanks
NoPaths == [isArray |-> FALSE, items |-> <<>>]

PathsArrays ==
  {<<>>}
  \cup {<<x>> : x \in ReservablePatterns \cup {""}}
  \cup {<<x, y>> : x \in ReservablePatterns \cup {""}, y \in ReservablePatterns \cup {""}}

PathsParams == {NoPaths} \cup {[isArray |-> TRUE, items |-> a] : a \in PathsArrays}

\* normalizeReservationPaths: no array gives [], blanks and repetitions are
\* dropped, the first occurrence keeps its place
RECURSIVE normalizeFrom(_, _)
normalizeFrom(paths, out) ==
  IF paths = <<>> THEN out
  ELSE LET raw == Head(paths)
           seen == {out[i] : i \in 1..Len(out)}
       IN  IF raw = "" \/ raw \in seen
           THEN normalizeFrom(Tail(paths), out)
           ELSE normalizeFrom(Tail(paths), Append(out, raw))

normalizeReservationPaths(paths) ==
  IF ~paths.isArray THEN <<>> ELSE normalizeFrom(paths.items, <<>>)

\* reservePaths: every pattern is filtered out of state.reservations and
\* pushed at its end
RECURSIVE reservePaths(_, _)
reservePaths(reservations, paths) ==
  IF paths = <<>> THEN reservations
  ELSE LET others == SelectSeq(reservations, LAMBDA r : r # Head(paths))
       IN  reservePaths(Append(others, Head(paths)), Tail(paths))

\* releasePaths: without paths everything is released; with paths, the
\* reservations whose pattern is among them
releasePaths(reservations, paths) ==
  IF ~paths.isArray \/ paths.items = <<>>
  THEN [released |-> reservations, remaining |-> <<>>]
  ELSE LET releaseSet == {paths.items[i] : i \in 1..Len(paths.items)}
       IN  [released |-> SelectSeq(reservations, LAMBDA r : r \in releaseSet),
            remaining |-> SelectSeq(reservations, LAMBDA r : r \notin releaseSet)]

\* buildRegistration: the reservations field is undefined for an empty list
buildRegistration(reservations) ==
  [owner |-> "self", hasReservations |-> Len(reservations) > 0,
   reservations |-> reservations]

\* no registration file
NoRecord == [owner |-> "nobody", hasReservations |-> FALSE, reservations |-> <<>>]

\* the registration of another process that took the name
PeerRecord == [owner |-> "peer", hasReservations |-> FALSE, reservations |-> <<>>]

\* what writeFileAtomic may do: rename the temporary file over the target;
\* fail to rename, remove the target and rename; fail to rename, remove the
\* target and fail to rename again; fail before the target is touched
WriteOutcomes == {"renamed", "replaced", "removed", "unwritten"}

WriteFails(outcome) == outcome \in {"removed", "unwritten"}

writeFileAtomic(l, registration, outcome) ==
  CASE outcome \in {"renamed", "replaced"} -> [l EXCEPT !.record = registration]
    [] outcome = "removed" ->
         [l EXCEPT !.record = NoRecord, !.faults = l.faults + 1]
    [] OTHER -> [l EXCEPT !.faults = l.faults + 1]

\* updateSelfHeartbeat: nothing is done when the lock of the name is not
\* acquired in time; under the lock the record is written if there is no
\* valid record, if it is the caller's, or if its owner is dead; the result
\* of writeFileAtomic is not looked at
updateSelfHeartbeat(l, registration, outcome) ==
  IF l.locked THEN l
  ELSE IF l.record.owner \in {"nobody", "self"} \/ ~l.peerAlive
       THEN writeFileAtomic(l, registration, outcome)
       ELSE l

\* refreshRegistration of a registered agent
refreshRegistration(l, outcome) ==
  updateSelfHeartbeat(l, buildRegistration(l.reservations), outcome)

NoOutcomeYet == [kind |-> "none", isError |-> FALSE]

\* a write may fail while the faults looked at are not used up
MayWrite(outcome) == WriteFails(outcome) => ledger.faults < MaxWriteFaults

\* execute, up to the dispatch on the action: ensureRegistered answers true
\* for a registered agent, and refreshRegistration is called
EnterExecute(action, paths, outcome) ==
  /\ ledger.stage = "idle"
  /\ MayWrite(outcome)
  /\ ledger' = [refreshRegistration(ledger, outcome) EXCEPT
                  !.stage = "entered", !.action = action, !.paths = paths,
                  !.result = NoOutcomeYet]
  /\ UNCHANGED <<coreVars, reader, pool, spawn, client, callsigns, batch, mailbox,
                 watcher, legacy, naming>>

\* the reserve action: no path left is an error; a pattern that passed
\* normalizeReservationPaths is never blank, so validateReservationPattern
\* accepts it
ReserveAction(outcome) ==
  /\ ledger.stage = "entered"
  /\ ledger.action = "reserve"
  /\ MayWrite(outcome)
  /\ LET paths == normalizeReservationPaths(ledger.paths)
     IN  IF Len(paths) = 0
         THEN ledger' = [ledger EXCEPT !.stage = "idle",
                           !.result = [kind |-> "missing_paths", isError |-> TRUE]]
         ELSE ledger' =
                [refreshRegistration(
                   [ledger EXCEPT !.reservations = reservePaths(@, paths)],
                   outcome)
                 EXCEPT !.stage = "idle",
                        !.result = [kind |-> "reserved", isError |-> FALSE]]
  /\ UNCHANGED <<coreVars, reader, pool, spawn, client, callsigns, batch, mailbox,
                 watcher, legacy, naming>>

\* the release action: an array without a valid path is an error
ReleaseAction(outcome) ==
  /\ ledger.stage = "entered"
  /\ ledger.action = "release"
  /\ MayWrite(outcome)
  /\ LET hasPathsParam == ledger.paths.isArray
         paths == normalizeReservationPaths(ledger.paths)
         split == releasePaths(ledger.reservations,
                               IF hasPathsParam
                               THEN [isArray |-> TRUE, items |-> paths]
                               ELSE NoPaths)
     IN  IF hasPathsParam /\ Len(paths) = 0
         THEN ledger' = [ledger EXCEPT !.stage = "idle",
                           !.result = [kind |-> "invalid_paths", isError |-> TRUE]]
         ELSE ledger' =
                [refreshRegistration(
                   [ledger EXCEPT !.reservations = split.remaining], outcome)
                 EXCEPT !.stage = "idle",
                        !.result = [kind |-> IF Len(split.released) = 0
                                             THEN "nothing_released"
                                             ELSE "released",
                                    isError |-> FALSE]]
  /\ UNCHANGED <<coreVars, reader, pool, spawn, client, callsigns, batch, mailbox,
                 watcher, legacy, naming>>

\* another process acquires the lock of the name, and keeps it
PeerLocks ==
  /\ ~ledger.locked
  /\ ledger' = [ledger EXCEPT !.locked = TRUE]
  /\ UNCHANGED <<coreVars, reader, pool, spawn, client, callsigns, batch, mailbox,
                 watcher, legacy, naming>>

\* it releases the lock
PeerUnlocks ==
  /\ ledger.locked
  /\ ledger' = [ledger EXCEPT !.locked = FALSE]
  /\ UNCHANGED <<coreVars, reader, pool, spawn, client, callsigns, batch, mailbox,
                 watcher, legacy, naming>>

\* registerSelf of another process, which finds no record of the name
PeerRegisters ==
  /\ ~ledger.locked
  /\ ledger.record = NoRecord
  /\ ledger' = [ledger EXCEPT !.record = PeerRecord, !.peerAlive = TRUE]
  /\ UNCHANGED <<coreVars, reader, pool, spawn, client, callsigns, batch, mailbox,
                 watcher, legacy, naming>>

\* the process that took the name dies
PeerDies ==
  /\ ledger.record = PeerRecord
  /\ ledger.peerAlive
  /\ ledger' = [ledger EXCEPT !.peerAlive = FALSE]
  /\ UNCHANGED <<coreVars, reader, pool, spawn, client, callsigns, batch, mailbox,
                 watcher, legacy, naming>>

\* the agent has registered: its record is in the registry, without
\* reservations
LedgerInit ==
  /\ SpawnIdle
  /\ NoSpawn
  /\ NoClient
  /\ NoCallsigns
  /\ NoBatch
  /\ NoMailbox
  /\ NoWatcher
  /\ NoLegacy
  /\ NoNaming
  /\ ledger = [stage |-> "idle", action |-> "none", paths |-> NoPaths,
               reservations |-> <<>>, record |-> buildRegistration(<<>>),
               locked |-> FALSE, peerAlive |-> FALSE, faults |-> 0,
               result |-> NoOutcomeYet]

LedgerNext ==
  \/ \E action \in {"reserve", "release"}, paths \in PathsParams,
        outcome \in WriteOutcomes : EnterExecute(action, paths, outcome)
  \/ \E outcome \in WriteOutcomes : ReserveAction(outcome)
  \/ \E outcome \in WriteOutcomes : ReleaseAction(outcome)
  \/ PeerLocks
  \/ PeerUnlocks
  \/ PeerRegisters
  \/ PeerDies

LedgerSpec == LedgerInit /\ [][LedgerNext]_vars

\* --------------------------------------- the inbox of a name and its owners
\* One agent name, the processes that own it one after the other, and the
\* inbox directory of the name. A message file is modelled by its number:
\* the files with a positive number hold a valid message, the others do not.

\* the processes that may own the name, each of which lives once
MaxOwners == 2

\* the message files written to the inbox
MaxLetters == 2

OwnerPids == 1..MaxOwners

ValidLetter(id) == id > 0

\* ensureDirSync: the directory is made when it does not exist; nothing of
\* an existing directory is touched
ensureDirSync(l) == IF l.dir THEN l ELSE [l EXCEPT !.dir = TRUE]

\* a registerSelf that would start its owner with an empty inbox
registerSelfFresh(l, p, acquired) ==
  LET made == [l EXCEPT !.dir = TRUE, !.files = {}]
  IN  IF ~acquired THEN made
      ELSE IF made.owner # 0 /\ made.owner # p /\ made.owner \in made.alive
           THEN made
           ELSE [made EXCEPT !.owner = p, !.registered = @ \cup {p}]

\* registerSelf, called by ensureRegistered of a process that is not
\* registered: the inbox directory of the name is ensured; without the lock,
\* or with the record of another live owner, the answer is false; otherwise
\* the record is written and state.registered is set
registerSelf(l, p, acquired) ==
  LET made == ensureDirSync(l)
  IN  IF ~acquired THEN made
      ELSE IF made.owner # 0 /\ made.owner # p /\ made.owner \in made.alive
           THEN made
           ELSE [made EXCEPT !.owner = p, !.registered = @ \cup {p}]

\* unregisterSelf(dirs, name) without owner token: under the lock the
\* registration file is unlinked; session_shutdown then clears
\* state.registered
unregisterSelf(l, p, acquired) ==
  [l EXCEPT !.owner = IF acquired THEN 0 ELSE @, !.registered = @ \ {p}]

\* processInbox of the name: a file without a valid message is moved to
\* .invalid; a valid message is given to the handler, and its file is
\* unlinked unless the handler raised
processInboxOf(l, p, raisesFor) ==
  LET made == ensureDirSync(l)
      valid == {f \in made.files : ValidLetter(f)}
  IN  [made EXCEPT
         !.files = valid \cap raisesFor,
         !.quarantine = @ \cup (made.files \ valid),
         !.handed[p] = @ \cup valid,
         !.last = [op |-> "drain", pid |-> p, found |-> made.files]]

\* a process of the name starts
OwnerStarts(p) ==
  /\ p \notin legacy.born
  /\ legacy' = [legacy EXCEPT !.born = @ \cup {p}, !.alive = @ \cup {p},
                              !.last = [op |-> "start", pid |-> p, found |-> {}]]
  /\ UNCHANGED <<coreVars, reader, pool, spawn, client, callsigns, batch, mailbox,
                 watcher, ledger, naming>>

\* ensureRegistered of a process that is not registered
EnsureRegistered(p, acquired) ==
  /\ p \in legacy.alive
  /\ p \notin legacy.registered
  /\ legacy' = [registerSelf(legacy, p, acquired) EXCEPT
                  !.last = [op |-> "register", pid |-> p, found |-> {}]]
  /\ UNCHANGED <<coreVars, reader, pool, spawn, client, callsigns, batch, mailbox,
                 watcher, ledger, naming>>

\* processInboxNow, from startWatcher or from the callback of the watch:
\* nothing for a process that is not registered
DrainNow(p, raisesFor) ==
  /\ p \in legacy.alive
  /\ p \in legacy.registered
  /\ legacy' = processInboxOf(legacy, p, raisesFor)
  /\ UNCHANGED <<coreVars, reader, pool, spawn, client, callsigns, batch, mailbox,
                 watcher, ledger, naming>>

\* session_shutdown of a registered process: the watcher is stopped, the
\* name is unregistered
SessionShutdown(p, acquired) ==
  /\ p \in legacy.alive
  /\ p \in legacy.registered
  /\ legacy' = [unregisterSelf(legacy, p, acquired) EXCEPT
                  !.last = [op |-> "unregister", pid |-> p, found |-> {}]]
  /\ UNCHANGED <<coreVars, reader, pool, spawn, client, callsigns, batch, mailbox,
                 watcher, ledger, naming>>

\* a process dies: its record stays in the registry
OwnerDies(p) ==
  /\ p \in legacy.alive
  /\ legacy' = [legacy EXCEPT !.alive = @ \ {p}, !.registered = @ \ {p},
                              !.last = [op |-> "death", pid |-> p, found |-> {}]]
  /\ UNCHANGED <<coreVars, reader, pool, spawn, client, callsigns, batch, mailbox,
                 watcher, ledger, naming>>

\* enqueueInboxMessage of another agent, or a file that is no message
LetterArrives(valid) ==
  /\ legacy.sent < MaxLetters
  /\ LET id == IF valid THEN legacy.sent + 1 ELSE -(legacy.sent + 1)
     IN  legacy' = [ensureDirSync(legacy) EXCEPT
                      !.sent = @ + 1, !.files = @ \cup {id},
                      !.letters = @ \cup {id},
                      !.last = [op |-> "enqueue", pid |-> 0, found |-> {}]]
  /\ UNCHANGED <<coreVars, reader, pool, spawn, client, callsigns, batch, mailbox,
                 watcher, ledger, naming>>

LegacyInit ==
  /\ SpawnIdle
  /\ NoSpawn
  /\ NoClient
  /\ NoCallsigns
  /\ NoBatch
  /\ NoMailbox
  /\ NoWatcher
  /\ NoLedger
  /\ NoNaming
  /\ legacy = [born |-> {}, alive |-> {}, registered |-> {}, owner |-> 0,
               dir |-> FALSE, files |-> {}, quarantine |-> {}, letters |-> {},
               handed |-> [p \in OwnerPids |-> {}], sent |-> 0,
               last |-> [op |-> "none", pid |-> 0, found |-> {}]]

LegacyNext ==
  \/ \E p \in OwnerPids : OwnerStarts(p)
  \/ \E p \in OwnerPids, acquired \in BOOLEAN : EnsureRegistered(p, acquired)
  \/ \E p \in OwnerPids, raisesFor \in SUBSET (1..MaxLetters) : DrainNow(p, raisesFor)
  \/ \E p \in OwnerPids, acquired \in BOOLEAN : SessionShutdown(p, acquired)
  \/ \E p \in OwnerPids : OwnerDies(p)
  \/ \E valid \in BOOLEAN : LetterArrives(valid)

LegacySpec == LegacyInit /\ [][LegacyNext]_vars

\* ------------------------------------------------- the name of an agent
\* ensureRegistered (index.ts) of one agent and the names that other live
\* agents hold in the registry. A name is the sequence of its character
\* codes, so that `${name}${i}` is the name followed by the digits of i.

\* the last suffix the loop of ensureRegistered tries (50 in the source)
MaxSuffix == 4

\* the calls of ensureRegistered that find the agent unregistered
MaxNamingCalls == 2

\* getInitialAgentName: the generated name, or the one PI_AGENT_NAME forces
BaseName == <<LetterA>>

\* the name N followed by the suffix i
Suffixed(i) == BaseName \o Decimal(i)

\* the name N followed by the suffixes 2, 3, ..., i one after the other
RECURSIVE Chained(_)
Chained(i) == IF i < 2 THEN BaseName ELSE Chained(i - 1) \o Decimal(i)

\* the names other agents may hold
PeerNames ==
  {BaseName} \cup {Suffixed(i) : i \in 2..MaxSuffix} \cup {Chained(i) : i \in 2..MaxSuffix}

\* tryRegister: state.agentName becomes the name, then registerSelf of
\* buildRegistration, whose name is state.agentName; registerSelf answers
\* false for the record of another live owner and when the lock is not
\* acquired; on true state.registered is set
tryRegister(s, name, skipped) ==
  LET named == [s EXCEPT !.agentName = name, !.tried = Append(@, name)]
  IN  IF named.agentName \in named.taken \/ named.agentName \in skipped
      THEN named
      ELSE [named EXCEPT !.registered = TRUE, !.records = @ \cup {named.agentName}]

\* for (let i = 2; i <= 50; i++) if (tryRegister(`${state.agentName}${i}`))
\* return true; after the loop the failure is notified
RECURSIVE tryFrom(_, _, _)
tryFrom(s, i, skipped) ==
  IF i > MaxSuffix
  THEN [s EXCEPT !.answer = FALSE, !.notified = "no_available_name"]
  ELSE LET t == tryRegister(s, s.agentName \o Decimal(i), skipped)
       IN  IF t.registered THEN [t EXCEPT !.answer = TRUE]
           ELSE tryFrom(t, i + 1, skipped)

ensureRegistered(s, skipped) ==
  IF s.registered THEN [s EXCEPT !.answer = TRUE]
  ELSE LET first == tryRegister(s, s.agentName, skipped)
       IN  IF s.explicit
           THEN IF first.registered THEN [first EXCEPT !.answer = TRUE]
                ELSE [first EXCEPT !.answer = FALSE, !.notified = "already_in_use"]
           ELSE IF first.registered THEN [first EXCEPT !.answer = TRUE]
                ELSE tryFrom(first, 2, skipped)

\* a call of ensureRegistered; skipped holds the name, if any, whose lock is
\* not acquired in time during the call
EnsureRegisteredCall(skipped) ==
  /\ naming.registered \/ naming.calls < MaxNamingCalls
  /\ naming' = ensureRegistered(
                 [naming EXCEPT !.stage = "called", !.skipped = skipped,
                                !.tried = <<>>, !.notified = "none",
                                !.calls = IF naming.registered THEN @ ELSE @ + 1],
                 skipped)
  /\ UNCHANGED <<coreVars, reader, pool, spawn, client, callsigns, batch, mailbox,
                 watcher, ledger, legacy>>

\* another live agent registers under a name that is free
PeerTakes(name) ==
  /\ name \notin naming.taken
  /\ name \notin naming.records
  /\ naming' = [naming EXCEPT !.taken = @ \cup {name}]
  /\ UNCHANGED <<coreVars, reader, pool, spawn, client, callsigns, batch, mailbox,
                 watcher, ledger, legacy>>

\* it unregisters
PeerLeaves(name) ==
  /\ name \in naming.taken
  /\ naming' = [naming EXCEPT !.taken = @ \ {name}]
  /\ UNCHANGED <<coreVars, reader, pool, spawn, client, callsigns, batch, mailbox,
                 watcher, ledger, legacy>>

NamingInit ==
  /\ SpawnIdle
  /\ NoSpawn
  /\ NoClient
  /\ NoCallsigns
  /\ NoBatch
  /\ NoMailbox
  /\ NoWatcher
  /\ NoLedger
  /\ NoLegacy
  /\ \E explicit \in BOOLEAN, taken \in SUBSET PeerNames :
       naming = [stage |-> "idle", explicit |-> explicit, agentName |-> BaseName,
                 registered |-> FALSE, taken |-> taken, records |-> {},
                 skipped |-> {}, tried |-> <<>>,
                 answer |-> FALSE, notified |-> "none", calls |-> 0]

NamingNext ==
  \/ \E skipped \in {{}} \cup {{name} : name \in PeerNames} :
       EnsureRegisteredCall(skipped)
  \/ \E name \in PeerNames : PeerTakes(name)
  \/ \E name \in PeerNames : PeerLeaves(name)

NamingSpec == NamingInit /\ [][NamingNext]_vars

\* --------------------------------------------------------------- properties
\* the elements of a sequence
Range(seq) == {seq[i] : i \in 1..Len(seq)}

\* process p takes a step of its call and survives it
Steps(p) == pc'[p] # pc[p] /\ pc'[p] # "dead"

\* a registration of a live process other than the (pid, sessionId) of r
LiveOtherOwner(c, r) ==
  /\ c.kind = "reg"
  /\ ~(c.pid = r.pid /\ c.sessionId = r.sessionId)
  /\ alive[c.pid]

\* C1: for every lock name, at most one process at a time executes the
\* lock-guarded function.
C1_MutualExclusion ==
  \A p, q \in Procs :
    (p # q /\ InFn(p) /\ InFn(q)) => LockName(p) # LockName(q)

\* C2: when registerSelf, under the lock, finds the stored registration of
\* the name valid and owned by a live process with another (pid, sessionId),
\* it writes nothing (no temporary file, the stored record untouched) and
\* yields false; and a register call that has yielded false writes nothing
\* more and still returns false.
C2_RegisterRejectsSecondOwner ==
  [][\A p \in Procs :
       (/\ call[p].op = "register"
        /\ Steps(p)
        /\ \/ pc[p] = "reg_read" /\ LiveOtherOwner(file[call[p].name], call[p].registration)
           \/ pc[p] = "rel" /\ ret[p] = "false")
       => /\ ret'[p] = "false"
          /\ pc'[p] \in {"rel", "idle"}
          /\ tmp'[p] = NoFile
          /\ file' = file]_vars

C2_Witness ==
  \E p \in Procs :
    /\ call[p].op = "register" /\ pc[p] = "rel" /\ ret[p] = "false"
    /\ LiveOtherOwner(existing[p], call[p].registration)
    /\ file[call[p].name] = existing[p]

\* C3: of two live processes that register the same name concurrently, at
\* most one gets true.
C3_AtMostOneTrue ==
  \A p, q \in Procs :
    ~(/\ p # q
      /\ call[p].op = "register" /\ call[q].op = "register"
      /\ call[p].name = call[q].name
      /\ pc[p] = "rel" /\ pc[q] = "rel"
      /\ ret[p] = "true" /\ ret[q] = "true")

\* C4: updateSelfHeartbeat, under the lock, goes on to write exactly when the
\* stored record is absent or invalid, has the caller's (pid, sessionId), or
\* belongs to a dead process; when it belongs to another live owner the call
\* writes nothing, then and until it returns.
C4_HeartbeatNeverClobbers ==
  [][\A p \in Procs :
       (call[p].op = "heartbeat" /\ Steps(p)) =>
         /\ pc[p] = "hb_read" =>
              IF LiveOtherOwner(file[call[p].name], call[p].registration)
                THEN pc'[p] = "rel" /\ tmp'[p] = NoFile /\ file' = file
                ELSE pc'[p] = "wr_ren" /\ tmp'[p] = call[p].registration
         /\ (pc[p] = "rel" /\ LiveOtherOwner(existing[p], call[p].registration))
              => file' = file /\ tmp'[p] = NoFile]_vars

C4_Witness ==
  \E p \in Procs :
    /\ call[p].op = "heartbeat" /\ pc[p] = "rel"
    /\ LiveOtherOwner(existing[p], call[p].registration)
    /\ file[call[p].name] = existing[p]

\* C5: unregisterSelf with an owner token goes on to delete the file only if
\* the stored record has both the token's pid and the token's sessionId.
C5_UnregisterNeedsBothFields ==
  \A p \in Procs :
    (pc[p] = "un_unlink" /\ call[p].owner.given) =>
      /\ existing[p].kind = "reg"
      /\ existing[p].pid = call[p].owner.pid
      /\ existing[p].sessionId = call[p].owner.sessionId

\* C6: the prune of listActiveAgents never deletes the registration of a
\* live process: the file it unlinks holds, at that moment, the (pid,
\* sessionId) the scan read, and that pid is dead.
C6_PruneNeverRemovesLive ==
  [][\A p \in Procs :
       (pc[p] = "pr_unlink" /\ Steps(p)) =>
         /\ file[cur[p]].kind = "reg"
         /\ file[cur[p]].pid = expected[p].pid
         /\ file[cur[p]].sessionId = expected[p].sessionId
         /\ ~alive[file[cur[p]].pid]]_vars

\* C7: while a registration is being replaced, no step of the write makes a
\* complete stored record missing or truncated: the file holds the complete
\* previous record or the complete new one.
C7_ReplaceNeverMissing ==
  [][\A p \in Procs :
       (/\ pc[p] \in {"wr_ren", "wr_fb", "wr_ren2"}
        /\ Steps(p)
        /\ file[call[p].name].kind = "reg")
       => file'[call[p].name] \in {file[call[p].name], call[p].registration}]_vars

\* a lock the specification calls stale: the recorded owner is dead, or the
\* lock (with or without an owner file) is older than STALE_LOCK_MS
StaleLock(l) ==
  /\ l.exists
  /\ \/ l.owner # 0 /\ ~alive[l.owner]
     \/ l.old

C9_LockFailureIsSoft ==
  [][\A p \in Procs :
       (release'[p] = "null" /\ release[p] # "null" /\ call[p].op # "list") =>
         /\ pc'[p] = "idle"
         /\ ret'[p] = (IF call[p].op = "register" THEN "false" ELSE "void")
         /\ file' = file
         /\ tmp' = tmp]_vars

C9_Witness ==
  \E p \in Procs :
    /\ release[p] = "null" /\ pc[p] = "idle" /\ ret[p] = "false"
    /\ file["a"].kind = "reg"

\* ascending by name, no name twice
SortedByName(seq) ==
  \A i, j \in 1..Len(seq) : i < j => NameRank(seq[i].name) < NameRank(seq[j].name)

\* the valid registrations of live processes now stored, but for name ex
LiveRegistrations(ex) ==
  {file[n] : n \in {m \in Names : /\ file[m].kind = "reg"
                                  /\ alive[file[m].pid]
                                  /\ m # ex}}

DeadRegistration(c) == c.kind = "reg" /\ ~alive[c.pid]

\* listActiveAgents returns the valid registrations of live processes, but
\* for the excluded name, ascending by name
ReturnsLiveSorted(p) ==
  (pc[p] = "ls" /\ pc'[p] = "idle") =>
    /\ Range(listed'[p]) = LiveRegistrations(call[p].exclude)
    /\ SortedByName(listed'[p])
    /\ Len(listed'[p]) = Cardinality(Range(listed'[p]))

Malformed(c) == c # NoFile /\ c.kind # "reg"

\* C11 as stated: when listActiveAgents returns, no malformed file that it
\* scanned is left in the registry.
C11_ListActiveDeletesMalformed ==
  [][\A p \in Procs :
       (pc[p] = "ls" /\ pc'[p] = "idle") => \A n \in Names : ~Malformed(file'[n])]_vars

\* C11, amended: listActiveAgents passes over a file that does not parse as
\* a valid registration: the entry is not returned, no prune is started for
\* it, and the file is left as it is.
C11_ListActiveSkipsMalformed ==
  [][\A p \in Procs, e \in Names :
       (/\ pc[p] = "ls" /\ e \in entries[p] /\ e \notin entries'[p]
        /\ Malformed(file[e]))
       => /\ file' = file
          /\ agents'[p] = agents[p]
          /\ pc'[p] = "ls"
          /\ \A i \in 1..Len(agents[p]) : agents[p][i].name # e]_vars

\* a call has returned the live agent and left the malformed file it scanned
C11_Witness ==
  \E p \in Procs, n \in Names :
    /\ pc[p] = "idle" /\ ret[p] = "list"
    /\ Len(listed[p]) = 1 /\ listed[p][1].name # n
    /\ file[n] = Invalid

\* the two arguments as the function compares them
Normalized(str) == StripDotSlash(normalize(str))

\* str is prefix followed by something (or nothing)
Extends(str, prefix) == \E rest \in Paths : str = prefix \o rest

ConflictPairs(self, fp) ==
  UNION {{<<file[n].name, r>> :
            r \in {x \in Range(file[n].reservations) :
                     pathMatchesReservation(fp, x.pattern)}} :
         n \in {m \in Names : /\ file[m].kind = "reg"
                              /\ alive[file[m].pid]
                              /\ file[m].name # self
                              /\ "reservations" \in DOMAIN file[m]}}

\* C13: getConflictsWithOtherAgents(self, path) returns no conflict that
\* names self; every conflict it returns names a live agent other than self
\* with a reservation that matches the path, and every such (agent,
\* reservation) pair is returned.
C13_ConflictsExcludeSelf ==
  \A p \in Procs :
    (tool[p].stage = "done" /\ decision[p] # NoDecision /\ ret[p] = "list") =>
      /\ \A i \in 1..Len(conflicts[p]) : conflicts[p][i].agent # tool[p].self
      /\ {<<c.agent, Reservation(c.pattern, c.reason)>> : c \in Range(conflicts[p])}
           = ConflictPairs(tool[p].self, tool[p].path)

\* self holds a matching reservation, another live agent holds one too, and
\* only the other one is returned
C13_Witness ==
  \E p \in Procs, n, m \in Names :
    /\ tool[p].stage = "done" /\ ret[p] = "list"
    /\ Len(conflicts[p]) = 1
    /\ file[n].kind = "reg" /\ file[n].name = tool[p].self /\ alive[file[n].pid]
    /\ "reservations" \in DOMAIN file[n]
    /\ \E r \in Range(file[n].reservations) :
         pathMatchesReservation(tool[p].path, r.pattern)
    /\ file[m].kind = "reg" /\ file[m].name # tool[p].self

\* C14: an edit or write tool call of a registered agent on a path is
\* blocked, and the block names the agent, the pattern and the reason of a
\* reservation of another live agent that matches the path, whenever there
\* is such a reservation; it is allowed when there is none; a call of another
\* tool is never blocked.
C14_EditWriteInterception ==
  \A p \in Procs :
    tool[p].stage = "done" =>
      /\ tool[p].toolName \notin {"edit", "write"} => decision[p] = Allow
      /\ (tool[p].toolName \in {"edit", "write"} /\ tool[p].registered
            /\ tool[p].path # <<>>) =>
           IF ConflictPairs(tool[p].self, tool[p].path) = {}
             THEN decision[p] = Allow
             ELSE /\ decision[p].kind = "block"
                  /\ \E pr \in ConflictPairs(tool[p].self, tool[p].path) :
                       /\ decision[p].agent = pr[1]
                       /\ decision[p].pattern = pr[2].pattern
                       /\ decision[p].reason =
                            IF pr[2].reason # "" THEN <<pr[2].reason>> ELSE <<>>

\* a write was blocked with the reason of the reservation, while the agent
\* that wrote holds a matching reservation itself
C14_Witness ==
  \E p \in Procs, n \in Names :
    /\ tool[p].stage = "done" /\ tool[p].toolName = "write"
    /\ decision[p].kind = "block" /\ decision[p].reason = <<"why">>
    /\ decision[p].agent # tool[p].self
    /\ file[n].kind = "reg" /\ file[n].name = tool[p].self
    /\ "reservations" \in DOMAIN file[n]
    /\ \E r \in Range(file[n].reservations) :
         pathMatchesReservation(tool[p].path, r.pattern)

\* the agent has a registration of a live process
LiveAgent(n) ==
  /\ n \in Names
  /\ file[n].kind = "reg"
  /\ alive[file[n].pid]
  /\ file[n].name = n

\* process p takes a step of its sendDirect call
DirectStep(p) ==
  /\ msg'[p].op = "direct"
  /\ msg'[p] # msg[p] \/ msg[p].stage = "target"

\* C15: sendDirect returns the empty-message error when the text trims to
\* empty, otherwise the self-target error when to = from, otherwise the
\* target-not-active error when the recipient has no registration of a live
\* process, and otherwise none of the three; a call that returns one of the
\* three has created no inbox file and appended no log line.
C15_SendDirectValidation ==
  /\ [](\A p \in Procs :
          (msg[p].op = "direct" /\ msg[p].stage = "done") =>
            IF msg[p].text = <<>>
              THEN result[p] = Error("Message is empty")
            ELSE IF msg[p].to = msg[p].from
              THEN result[p] = Error("Cannot send direct message to yourself")
            ELSE IF ~LiveAgent(msg[p].to)
              THEN result[p] = Error("Agent is not active")
              ELSE result[p] \in {Ok, Error("Failed to send direct message")})
  /\ [][\A p \in Procs :
          (DirectStep(p) /\ result'[p] \in {NoResult, Error("Message is empty"),
                                            Error("Cannot send direct message to yourself"),
                                            Error("Agent is not active")})
            => (inbox' = inbox /\ log' = log)]_vars

\* a direct message with a blank text to the sender itself was refused for
\* its text, and one to an agent left registered by a dead process for its
\* target
C15_Witness ==
  \E p, q \in Procs :
    /\ msg[p].op = "direct" /\ msg[p].stage = "done"
    /\ msg[p].text = <<>> /\ msg[p].to = msg[p].from
    /\ result[p] = Error("Message is empty")
    /\ msg[q].op = "direct" /\ msg[q].stage = "done"
    /\ result[q] = Error("Agent is not active")
    /\ log = <<>>

LivePeers(from) == {n \in Names : LiveAgent(n) /\ n # from}

Reads(n, k) == Cardinality({i \in 1..Len(examined) : examined[i] = <<n, k>>})

C21_LogReadsSkipCorruption ==
  LET events == SelectSeq(reader.lines, IsLogEvent) IN
    /\ reader.didAll => reader.all = events
    /\ reader.didTail =>
         reader.tail =
           IF reader.limit <= 0 THEN <<>>
           ELSE IF reader.limit >= Len(events) THEN events
           ELSE SubSeq(events, Len(events) - reader.limit + 1, Len(events))

\* a file with an event, an object without id and a second event was
\* read; the tail of limit 1 is the second event
C21_Witness ==
  /\ reader.didAll /\ reader.didTail
  /\ reader.lines = <<Event("e1"), [parse |-> "object", idType |-> "undefined"],
                      Event("e2")>>
  /\ reader.limit = 1
  /\ reader.all = <<Event("e1"), Event("e2")>>
  /\ reader.tail = <<Event("e2")>>


\* the calls of fn that have not resolved yet
Outstanding == {w \in 1..Len(pool.workers) : pool.workers[w].state = "awaiting"}

\* C22: when mapWithConcurrencyLimit resolves, what it resolves to has the
\* length of items and its element i is what fn(items[i], i) resolved to,
\* whatever the concurrency and the order in which the calls of fn finished
C22_PositionalResults ==
  pool.stage = "resolved" =>
    /\ Len(pool.resolved) = Len(pool.items)
    /\ \A i \in 1..Len(pool.items) : pool.resolved[i] = fn(pool.items[i], i - 1)

\* the list of the test under concurrency 2, the third item finishing first
\* and the first item last
C22_Witness ==
  /\ pool.stage = "resolved"
  /\ pool.items = <<10, 40, 10, 40>>
  /\ pool.concurrency = 2
  /\ pool.finished = <<1, 2, 3, 0>>
  /\ pool.resolved = <<fn(10, 0), fn(40, 1), fn(10, 2), fn(40, 3)>>

\* C23: mapWithConcurrencyLimit never has more than max(1, min(concurrency, n))
\* calls of fn outstanding, hence at most min(4, n) for the n tasks of a
\* parallel batch, whose concurrency is max(1, min(4, n)); no index is ever
\* claimed twice, and when the call resolves every index 0..n-1 has been
\* claimed exactly once
C23_BoundedParallelism ==
  LET n == Len(pool.items)
      k == pool.concurrency
  IN /\ Cardinality(Outstanding) <= Max(1, Min(k, n))
     /\ (n >= 1 /\ k = Max(1, Min(4, n))) => Cardinality(Outstanding) <= Min(4, n)
     /\ \A v, w \in Outstanding : pool.workers[v].idx = pool.workers[w].idx => v = w
     /\ \A i \in 1..Len(pool.claims) : Len(pool.claims[i]) <= 1
     /\ pool.stage = "resolved" =>
          /\ Len(pool.claims) = n
          /\ \A i \in 1..n : Len(pool.claims[i]) = 1

\* a batch of five tasks: four calls outstanding, the fifth index claimed by
\* the worker whose first call resolved
C23_Witness ==
  /\ Len(pool.items) = 5
  /\ pool.concurrency = batchConcurrency(5)
  /\ Cardinality(Outstanding) = 4
  /\ pool.finished = <<2>>
  /\ pool.claims = <<<<1>>, <<2>>, <<3>>, <<4>>, <<3>>>>

\* the step is the subagent tool handling a request
ToolStep == spawn'.calls = spawn.calls + 1 /\ spawn'.last.via = "tool"

\* C24: the subagent tool accepts a request only if it has exactly one of a
\* non-blank task and a non-empty tasks list, and at most 8 tasks; it
\* rejects a request with both, with neither, or with more than 8 tasks;
\* handling a rejected request starts no run and launches no child
C24_SpawnValidation ==
  /\ [](spawn.last.via = "tool" =>
         LET params == spawn.last.params
             modes == Number(hasSingle(params)) + Number(hasParallel(params))
         IN /\ spawn.last.response \in {"invalid_params", "already_running", "queued"}
            /\ spawn.last.response # "invalid_params" => modes = 1 /\ params.tasks <= 8
            /\ modes # 1 => spawn.last.response = "invalid_params"
            /\ params.tasks > 8 => spawn.last.response = "invalid_params"
            /\ spawn.last.response = "invalid_params" => spawn.last.spawned = 0)
  /\ [][ToolStep /\ spawn'.last.response = "invalid_params" =>
          spawn'.agents = spawn.agents]_vars

\* a registered agent at depth 0 with no run rejects a request that has a
\* task and a tasks list
C24_Witness ==
  /\ spawn.last.via = "tool"
  /\ spawn.last.params = [task |-> [present |-> TRUE, text |-> <<" ", "h", " ">>],
                          tasks |-> 1]
  /\ spawn.last.response = "invalid_params"
  /\ spawn.agents[1].registered
  /\ spawn.agents[1].run = NoRun
  /\ ~getSubagentDepthState(spawn.agents[1]).blocked

\* the latest step was a handler that started a run
RunStarted == spawn.last.response \in {"queued", "launching"}

\* C25: a run of an agent that is registered launches no child and reports
\* max_depth_reached when the depth of the agent is >= its maxDepth, and
\* launches otherwise; no agent at depth >= maxDepth ever calls spawn();
\* max_depth_reached is reported at no other depth; every child gets the
\* depth of its parent + 1; the depth defaults to 0 and maxDepth to 2; no
\* agent of the chain runs at a depth greater than its maxDepth
C25_DepthGuard ==
  /\ spawn.last.agent # 0 =>
       LET agent == spawn.agents[spawn.last.agent]
           d == getSubagentDepthState(agent)
       IN /\ d.depth >= d.maxDepth => spawn.last.spawned = 0
          /\ spawn.last.spawned > 0 => spawn.last.childDepth = d.depth + 1
          /\ agent.run.error = "max_depth_reached" => d.depth >= d.maxDepth
          /\ (RunStarted /\ agent.registered /\ d.depth >= d.maxDepth) =>
               agent.run.error = "max_depth_reached"
          /\ (RunStarted /\ agent.registered /\ d.depth < d.maxDepth) =>
               spawn.last.spawned > 0
  /\ \A i \in 1..Len(spawn.agents) :
       LET d == getSubagentDepthState(spawn.agents[i])
       IN /\ d.depth <= d.maxDepth
          /\ ~spawn.agents[i].depthEnv.set => d.depth = 0
          /\ ~spawn.agents[i].maxEnv.set => d.maxDepth = 2
          /\ i > 1 => d.depth = getSubagentDepthState(spawn.agents[i - 1]).depth + 1

\* with nothing set in the environment of the first agent: the third agent
\* of the chain, at depth 2, is asked for a subagent and reports
\* max_depth_reached
C25_Witness ==
  /\ Len(spawn.agents) = 3
  /\ spawn.agents[1].depthEnv = EnvUnset
  /\ spawn.agents[1].maxEnv = EnvUnset
  /\ spawn.agents[3].depthEnv = EnvNum(2)
  /\ spawn.last.agent = 3
  /\ RunStarted
  /\ spawn.last.spawned = 0
  /\ spawn.agents[3].run.error = "max_depth_reached"

\* the step is a handler of the first agent: the subagent tool or the
\* /subagent command
HandlerStep == spawn'.calls = spawn.calls + 1

\* the latest step handled a request with exactly one mode and at most 8
\* tasks, at a depth below maxDepth
GoodRequest ==
  /\ spawn.last.via \in {"tool", "command"}
  /\ Number(hasSingle(spawn.last.params)) + Number(hasParallel(spawn.last.params)) = 1
  /\ spawn.last.params.tasks <= 8
  /\ LET d == getSubagentDepthState(spawn.agents[spawn.last.agent])
     IN d.depth < d.maxDepth

\* C26 as stated: a request with exactly one mode, within the cap and at a
\* depth below maxDepth launches its children, whatever the state of the agent
C26_OnlyDepthAndCapReject ==
  GoodRequest => spawn.last.spawned > 0

\* C26: a request with exactly one mode, within the cap and at a depth below
\* maxDepth launches its children unless a run of the agent is outstanding
\* (the reply is already_running) or the agent is not registered and
\* registerSelf fails (the run reports registration_failed); these are the
\* only two other rejections
C26_SpawnPreconditions ==
  /\ [](GoodRequest =>
         LET agent == spawn.agents[spawn.last.agent]
         IN \/ spawn.last.spawned > 0 /\ agent.run.stage = "running"
            \/ spawn.last.response = "already_running"
            \/ agent.run.error = "registration_failed")
  /\ [][HandlerStep =>
          LET a == spawn'.last.agent
          IN /\ spawn'.last.response = "already_running" =>
                  spawn.agents[a].activeSubagentRuns > 0
             /\ (spawn'.last.response # "already_running"
                   /\ spawn'.agents[a].run.error = "registration_failed") =>
                  ~spawn.agents[a].registered /\ ~spawn'.last.regOk]_vars

\* an agent that is not registered, below maxDepth and without a run is
\* asked for a batch of 8, registers, and launches 4 children
C26_Witness ==
  /\ GoodRequest
  /\ spawn.calls = 1
  /\ spawn.last.via = "tool"
  /\ spawn.last.params.tasks = 8
  /\ spawn.last.regOk
  /\ spawn.last.spawned = 4
  /\ spawn.agents[1].run.stage = "running"

\* C27: activeSubagentRuns of an agent is 0 or 1, and 1 exactly while a run
\* is outstanding; a subagent tool call or a /subagent command handled
\* while it is 1 starts no run and launches no child
C27_OneRunAtATime ==
  /\ [](\A i \in 1..Len(spawn.agents) :
          /\ spawn.agents[i].activeSubagentRuns \in {0, 1}
          /\ spawn.agents[i].activeSubagentRuns = 1 <=> spawn.agents[i].run.stage # "none")
  /\ [][(HandlerStep /\ spawn.agents[spawn'.last.agent].activeSubagentRuns > 0) =>
          /\ spawn'.agents = spawn.agents
          /\ spawn'.last.spawned = 0
          /\ spawn'.last.response \in {"already_running", "invalid_params", "usage"}]_vars

\* a batch of 8 is running with launches in flight, and a request for one
\* subagent is answered already_running
C27_Witness ==
  /\ spawn.last.via = "tool"
  /\ hasSingle(spawn.last.params)
  /\ spawn.last.params.tasks = 0
  /\ spawn.last.response = "already_running"
  /\ spawn.agents[1].activeSubagentRuns = 1
  /\ spawn.agents[1].run.stage = "running"
  /\ spawn.agents[1].run.n = 8
  /\ spawn.agents[1].run.inflight = 4

\* what the call resolves to for the data of a turn_end event
TurnResult(data) ==
  Resolve(IF data.content = "done before ack" THEN "done before ack" ELSE "",
          data.turnIndex)

\* C28: the call is resolved only when the send was acknowledged as
\* successful and a turn_end event was seen, and then at once and with the
\* data of that turn_end, in either order of arrival; a turn_end seen before
\* the acknowledgment is buffered and does not resolve the call
C28_ResolvesOnBoth ==
  /\ client.outcome.kind = "resolved" =>
       /\ client.sendAcked
       /\ client.sawTurnEnd
       /\ client.outcome = TurnResult(client.lastTurnEnd)
  /\ (client.sendAcked /\ client.sawTurnEnd) => client.outcome.kind = "resolved"
  /\ (client.sawTurnEnd /\ ~client.sendAcked) =>
       /\ client.pendingTurnEndData = client.lastTurnEnd
       /\ client.outcome.kind # "resolved"
  /\ (client.sendAcked /\ ~client.sawTurnEnd) => client.outcome.kind # "resolved"

\* the turn_end of the test was buffered and the acknowledgment that came
\* after it resolved the call with its data
C28_Witness ==
  /\ client.pendingTurnEndData = [content |-> "done before ack", turnIndex |-> 7]
  /\ client.sendAcked
  /\ client.outcome = Resolve("done before ack", 7)

\* the error a failed acknowledgment of the send rejects with
RemoteError ==
  Reject(IF client.failure = "" THEN "Remote session rejected message"
         ELSE client.failure)

\* C29: once the data listener has seen a response to the send command with
\* success = false, the call is rejected with the remote error, also when
\* a turn_end event was buffered, and a rejected call stays rejected with
\* the same error
C29_FailureAckTerminal ==
  /\ [](client.failure # "none" => client.outcome = RemoteError)
  /\ [][client.outcome.kind = "rejected" => client'.outcome = client.outcome]_vars

\* a turn_end was buffered, the acknowledgment carried a failure, and a
\* later event of the socket found the call rejected with the remote error
C29_Witness ==
  /\ client.failure = "rejected by test server"
  /\ client.pendingTurnEndData = [content |-> "done before ack", turnIndex |-> 7]
  /\ client.outcome = Reject("rejected by test server")
  /\ client.events = 4
  /\ client.last = "data"

\* C30: the call settles, and settles once: the promise is resolved or
\* rejected at most once and its outcome never changes afterwards; the
\* timer, an error and a close of the socket that find the call unsettled
\* reject it; every call is settled in the end
C30_SettlesExactlyOnce ==
  /\ [](/\ client.settles <= 1
        /\ client.settled <=> client.outcome.kind # "pending"
        /\ client.settled <=> client.settles = 1)
  /\ [][/\ client.settled => client'.outcome = client.outcome
        /\ (~client.settled /\ client'.last = "timer" /\ client.timer /\ ~client'.timer
              /\ client'.events = client.events) =>
             client'.outcome = Reject("Timed out waiting for remote turn completion")
        /\ (~client.settled /\ client'.last = "error"
              /\ client'.events = client.events + 1) =>
             client'.outcome.kind = "rejected"
        /\ (~client.settled /\ client'.last = "close"
              /\ client'.events = client.events + 1) =>
             client'.outcome =
               Reject("Remote control socket closed before response")]_vars
  /\ <>client.settled

\* the call timed out after a successful acknowledgment and without a
\* turn_end, and a chunk that arrived afterwards changed nothing
C30_Witness ==
  /\ client.outcome = Reject("Timed out waiting for remote turn completion")
  /\ client.sendAcked
  /\ ~client.sawTurnEnd
  /\ client.last = "data"
  /\ client.settles = 1

\* C31: within one run no child is given the display identity of a child
\* launched earlier in that run, whatever the task indices of the launches
C31_CollisionFree ==
  \A j, k \in 1..Len(callsigns.launched) :
    j # k => callsigns.launched[j].callsign # callsigns.launched[k].callsign

\* a task index launched a second time got a later candidate than the first
C31_Witness ==
  \E j, k \in 1..Len(callsigns.launched) :
    /\ j < k
    /\ callsigns.launched[j].index = callsigns.launched[k].index
    /\ callsigns.launched[k].nonce > 0
    /\ callsigns.launched[k].callsign
         # generateCallsignCandidate(callsigns.runId, callsigns.launched[k].index, 0)

\* the child of the task did not start, or it ended with a nonzero code
ChildFailed(t) ==
  \/ t.proc \in {"errored", "closed"} /\ ~t.started
  \/ t.proc = "closed" /\ t.started /\ Coalesce(t.code) # 0

\* C32: a child that ends with a nonzero code or does not start never makes
\* its task or the batch throw: the task returns a result with a nonzero
\* exitCode and an error, a batch of N tasks reports N results, and the
\* number it reports as succeeded is the number of results with exit code 0
C32_FailuresAreData ==
  /\ \A i \in 1..Len(batch.tasks) :
       LET t == batch.tasks[i]
       IN  /\ t.stage # "threw"
           /\ t.stage = "returned" /\ ChildFailed(t) =>
                /\ t.result.exitCode # 0 /\ ~Falsy(t.result.error)
                /\ t.returned.result.exitCode # 0
                /\ ~Falsy(t.returned.result.error)
  /\ batch.outcome.kind # "threw"
  /\ batch.outcome.kind \in {"single", "parallel"} =>
       /\ batch.outcome.total = Len(batch.tasks)
       /\ batch.outcome.successCount =
            Cardinality({i \in 1..Len(batch.tasks) :
                           batch.tasks[i].result.exitCode = 0})
       /\ batch.outcome.isError =
            (\E i \in 1..Len(batch.tasks) : batch.tasks[i].result.exitCode # 0)

\* a batch of two is reported as 1/2 succeeded: one child did not start
C32_Witness ==
  /\ batch.outcome.kind = "parallel"
  /\ batch.outcome.total = 2
  /\ batch.outcome.successCount = 1
  /\ \E i \in 1..Len(batch.tasks) :
       /\ ~batch.tasks[i].started
       /\ batch.tasks[i].stage = "returned"
       /\ batch.tasks[i].result.error = "message"

\* C35: once runSpawnTask has returned its SpawnResult, no later event of the
\* child process changes a field of that result
C35_ResultFrozen ==
  \A i \in 1..Len(batch.tasks) :
    batch.tasks[i].returned.set =>
      batch.tasks[i].result = batch.tasks[i].returned.result

\* the intent that the urgency of a sender selects
IntentOf(urgent) == IF urgent THEN "steer" ELSE "followUp"

\* C33: the intent with which a drained message is handed to the host runtime
\* is the one its sender chose: steer for a message sent urgent, followUp for
\* one sent not urgent or without the argument
C33_UrgencyPreserved ==
  \A p \in Procs :
    msg[p].op = "drain" =>
      \A i \in 1..Len(msg[p].handled) :
        \A j \in 1..Len(log) :
          log[j].id = msg[p].handled[i].message.id =>
            msg[p].handled[i].deliverAs = IntentOf(log[j].urgent)

\* an urgent message was sent and its recipient has handed it over as steer
C33_Witness ==
  \E p \in Procs :
    /\ msg[p].op = "drain"
    /\ \E i \in 1..Len(msg[p].handled) :
         /\ ~msg[p].handled[i].raised
         /\ msg[p].handled[i].deliverAs = "steer"
         /\ \E j \in 1..Len(log) :
              log[j].id = msg[p].handled[i].message.id /\ log[j].urgent

\* C34: a drain hands the valid messages of the inbox to the handler in
\* ascending order of their file names, so two messages enqueued at strictly
\* increasing timestamps are handled in the order they were enqueued
C34_DrainOrder ==
  \A i, j \in 1..Len(mailbox.handled) :
    LET f == mailbox.handled[i]
        g == mailbox.handled[j]
    IN  /\ i < j => Less(f.name, g.name)
        /\ f.time < g.time => i < j

\* a drain handled two messages of different processes, the earlier one first
\* although it has the greater process id, across a carry of the clock
C34_Witness ==
  /\ mailbox.drains = 1
  /\ \E i, j \in 1..Len(mailbox.handled) :
       /\ i < j
       /\ mailbox.handled[i].time < mailbox.handled[j].time
       /\ mailbox.handled[i].time % 10 = 9
       /\ mailbox.handled[i].name[15] = Zero + 1
       /\ mailbox.handled[j].name[15] = Zero + 7

\* C36: a run that was started gives the gate back: activeSubagentRuns
\* returns to 0 when the run has succeeded, was rejected inside the run or
\* has thrown, provided every child exits; and a request handled while it is
\* 0 is never answered already_running
C36_GateReleased ==
  /\ (spawn.agents[1].activeSubagentRuns > 0) ~> (spawn.agents[1].activeSubagentRuns = 0)
  /\ [][(HandlerStep /\ spawn.agents[1].activeSubagentRuns = 0) =>
          spawn'.last.response # "already_running"]_vars

\* the run of a batch has thrown with children in flight, and the gate is open
C36_Witness ==
  /\ spawn.last.via = "settled"
  /\ spawn.last.response = "exception"
  /\ spawn.agents[1].activeSubagentRuns = 0
  /\ spawn.agents[1].run.stage = "none"

\* C37: every message file that is in the inbox of the agent at some time
\* from the start of startWatcher on is eventually handed to the delivery
\* handler, with no further arrival needed
C37_NoMessageWaits ==
  \A m \in -1..MaxArrivals :
    (watcher.stage # "none" /\ m \in watcher.files) ~> (m \in watcher.handed)

\* C38: whenever the reserve or release action returns its success result, the
\* registration record of the agent lists exactly its local reservations
Published(l) ==
  /\ l.record.owner = "self"
  /\ l.record = buildRegistration(l.reservations)

C38_PublishedWhenAcknowledged ==
  [][(ledger.stage = "entered" /\ ledger'.stage = "idle"
      /\ ledger'.result.kind \in {"reserved", "released"})
     => Published(ledger')]_vars

\* C39: no valid message of the inbox of a name is lost when its owner
\* unregisters or dies or when a process registers under the name: it stays
\* in the inbox until it is handed to a handler, and a drain by the process
\* registered under the name hands over every valid message it finds
C39_InboxOutlivesOwner ==
  /\ \A id \in legacy.letters :
        ValidLetter(id) =>
          \/ id \in legacy.files
          \/ \E p \in OwnerPids : id \in legacy.handed[p]
  /\ legacy.last.op = "drain" =>
        \A id \in legacy.last.found :
          ValidLetter(id) => id \in legacy.handed[legacy.last.pid]

\* a message that arrived for the first owner, who unregistered or died
\* without having been handed it, has been handed to the second owner
C39_Witness ==
  \E p, q \in OwnerPids, id \in legacy.letters :
    /\ p # q
    /\ ValidLetter(id)
    /\ p \in legacy.born
    /\ p \notin legacy.registered
    /\ id \notin legacy.handed[p]
    /\ legacy.owner = q
    /\ legacy.last.op = "drain"
    /\ legacy.last.pid = q
    /\ id \in legacy.last.found
    /\ id \in legacy.handed[q]

\* C40: when an agent without forced name finds its name N held by another
\* live agent, ensureRegistered tries N, N2, N3, ... up to the first of them
\* that is free, registers under it and answers true with state.agentName the
\* name of the record written; it answers false only if all of them are taken
FreeSuffixes(taken) == {i \in 2..MaxSuffix : Suffixed(i) \notin taken}

FirstFree(taken) ==
  CHOOSE i \in FreeSuffixes(taken) : \A j \in FreeSuffixes(taken) : i <= j

LastTried(taken) == IF FreeSuffixes(taken) = {} THEN MaxSuffix ELSE FirstFree(taken)

C40_FallbackOrder ==
  [][(/\ naming.calls = 0
      /\ naming'.calls = 1
      /\ ~naming.explicit
      /\ naming.agentName = BaseName
      /\ naming'.skipped = {}
      /\ BaseName \in naming.taken)
     => /\ naming'.tried
             = <<BaseName>>
               \o [k \in 1..(LastTried(naming.taken) - 1) |-> Suffixed(k + 1)]
        /\ naming'.answer = (FreeSuffixes(naming.taken) # {})
        /\ naming'.answer =>
             /\ naming'.agentName = Suffixed(FirstFree(naming.taken))
             /\ naming'.agentName \in naming'.records]_vars

====
